---- MODULE Spec2Model ----
(***************************************************************************)
(* Model of snakeoil's C accelerators (src/src/caching.c): the             *)
(* WeakValCache mapping, its WeakValFinalizer weak-reference callback and  *)
(* the part of the CPython runtime they are called from (reference counts, *)
(* weak references and their callbacks, dict operations).                  *)
(*                                                                         *)
(* A weak-reference object is described by what it can still do, not by    *)
(* its address: the one stored under a key is the entry of that key; one   *)
(* that left the map is counted in `armed` while the caller holds it and   *)
(* its referent lives, and in `queued` once its referent is gone and its   *)
(* callback waits to run.  A weak reference nobody holds is deallocated    *)
(* and its callback never runs.                                            *)
(***************************************************************************)
EXTENDS Integers, FiniteSets, Sequences, TLC

\* ------------------------------------------------------------------ bounds
NumObjs == 2        \* weak-referenceable value objects the caller owns
NumRefs == 2        \* weak-reference objects that can exist at one time
MaxHeld == 1        \* references returned by lookups the caller holds at one time

\* ------------------------------------------------------------- the universe
Objs == 1..NumObjs
HashableKeys   == {"a", "b"}
UnhashableKeys == {"u"}
Keys == HashableKeys \cup UnhashableKeys

NULL == -1              \* the C null pointer (an object pointer)
None == 0               \* Py_None
Dflt == -2              \* the caller's default object passed to get()
NoKey == "-"            \* a call that reads no key

\* values a caller can hand to setitem: an object it owns, a weak-reference
\* object, an object of a type without weak-reference support, or no value
ObjVal(o)  == [t |-> "obj",  id |-> o]
WRefVal    == [t |-> "wref", id |-> 0]
PlainVal   == [t |-> "plain", id |-> 0]
NullVal    == [t |-> "null", id |-> 0]
NoSet == [key |-> NoKey, obj |-> None]

VARIABLES
  dict,     \* self->dict: key -> the weak reference stored under it
            \*   (obj: its referent or None, held: the caller holds it too)
  armed,    \* weak references out of the map, held by the caller, referent
            \*   alive: how many per finalizer key and referent
  queued,   \* weak references out of the map whose referent is gone and
            \*   whose finalizer has yet to run: how many per finalizer key
  rc,       \* ob_refcnt of every value object (0: deallocated)
  pc,       \* "run", or how the process ended
  res,      \* the last call: op, the case it met, ret, err
  stored,   \* history: for each key in the map, the object last stored under it
  lastSet   \* history: the last set, if no set, delete or clear followed it

cacheVars == <<dict, armed, queued, rc, pc, res, stored, lastSet>>

Without(f, k) == [x \in (DOMAIN f) \ {k} |-> f[x]]
\* a store that leaves the entry of a key that is present as it is
With_KeepOld(f, k, v) ==
  [x \in (DOMAIN f) \cup {k} |-> IF x \in DOMAIN f THEN f[x] ELSE v]

With(f, k, v) == [x \in (DOMAIN f) \cup {k} |-> IF x = k THEN v ELSE f[x]]
\* the record of a call: the operation, the case it met (the kind of value
\* passed, or what a lookup found), and what it returned
Result(op, case, ret, err) == [op |-> op, case |-> case, ret |-> ret, err |-> err]
\* the history of the keys that are still in the map d
Present(st, d) == [k \in DOMAIN st |-> IF k \in DOMAIN d THEN st[k] ELSE None]

RECURSIVE SumOver(_, _)
SumOver(f, S) ==
  IF S = {} THEN 0
  ELSE LET x == CHOOSE y \in S : TRUE IN f[x] + SumOver(f, S \ {x})

\* the references to values the caller got from lookups and still holds
\* (every value starts with the one reference of its owner)
NumHeld == SumOver([o \in Objs |-> IF rc[o] > 1 THEN rc[o] - 1 ELSE 0], Objs)

\* the weak-reference objects that exist
NumAlive ==
  Cardinality(DOMAIN dict) + SumOver(queued, HashableKeys)
    + SumOver([k \in HashableKeys |-> SumOver(armed[k], Objs)], HashableKeys)

\* ------------------------------------------------------ CPython primitives
\* PyObject_Hash succeeds
Hashable(key) == key \in HashableKeys

\* a setitem that forgets the weak-reference check
PyWeakref_Check_Never(val) == FALSE

PyWeakref_Check(val) == val.t = "wref"

\* PyWeakref_NewRef(val, finalizer): a new weak reference held by nobody yet
PyWeakref_NewRef(val) == [obj |-> val.id, held |-> FALSE]

\* PyWeakref_GetObject: the referent, or Py_None once it is gone
PyWeakref_GetObject(w) == w.obj

\* PyDict_GetItem: a borrowed value or NULL; it swallows every error,
\* a failing hash included
PyDict_GetItem(d, key) ==
  IF Hashable(key) /\ key \in DOMAIN d THEN d[key] ELSE [obj |-> NULL, held |-> FALSE]

\* PyDict_DelItem: the error it sets, "none" on success
PyDict_DelItemErr(d, key) ==
  IF ~Hashable(key) THEN "TypeError"
  ELSE IF key \notin DOMAIN d THEN "KeyError"
  ELSE "none"

PyDict_DelItem(d, key) ==
  IF PyDict_DelItemErr(d, key) = "none" THEN Without(d, key) ELSE d

\* The map lets go of the weak references of the keys in K.  One whose
\* referent is gone still has its callback queued; one the caller holds
\* stays armed; any other is deallocated with its callback.
QueuedAfter(q, d, K) ==
  [k \in HashableKeys |->
     q[k] + (IF k \in K /\ k \in DOMAIN d /\ d[k].obj = None THEN 1 ELSE 0)]

ArmedAfter(a, d, K) ==
  [k \in HashableKeys |-> [o \in Objs |->
     a[k][o] + (IF k \in K /\ k \in DOMAIN d /\ d[k].obj = o /\ d[k].held
                THEN 1 ELSE 0)]]

\* ------------------------------------------- the other accelerators' state
\* WeakInstMeta (src/src/caching.c) and InternalJitAttr (src/src/klass.c)
\* keep state of their own; each is explored by a specification of its own
\* (SpecInst, SpecJit) and stands still in the others.
NumInsts == 2       \* instances of the classes that exist at one time
MaxReads == 3       \* reads of one memoized attribute that are counted

Insts == 1..NumInsts
Classes == {"T", "U"}       \* class U(T); T has no base made by WeakInstMeta
NoCls == "-"
\* the key of an instance no cache entry was ever made for
NoIKey == << >>
FreeInst == [st |-> "free", cls |-> NoCls, key |-> NoIKey]
NoType == [made |-> FALSE, inst_caching |-> 0, weakref |-> FALSE]

Absent == -4        \* no such attribute on the owner (AttributeError)
Descr == -3         \* the descriptor object itself
Sentinel == -5      \* a sentinel object passed as singleton=
NoJit == [made |-> FALSE, use_singleton |-> 1, use_setattr |-> 0, singleton |-> None]

IResult(op, ret, err, warn, ctor, cflag) ==
  [op |-> op, ret |-> ret, err |-> err, warn |-> warn, ctor |-> ctor, cflag |-> cflag]
JResult(op, ret, err, called, path) ==
  [op |-> op, ret |-> ret, err |-> err, called |-> called, path |-> path]

\* PlainTextFormatter (src/src/formatters.c), explored by SpecFmt
Width == 2          \* self->width, the column to wrap at
MaxPos == 3         \* the largest self->pos that is followed
MaxArgs == 1        \* positional arguments of one write
MaxLeft == 1        \* calls a stream that is about to fail still takes
EPIPE == 32         \* errno of a write to a pipe nobody reads
EIO == 5            \* another errno
\* what a call returned and the exception it left: its type and, for an
\* IOError, its errno (NULL: the exception has no value)
FResult(op, ret, exc, val) == [op |-> op, ret |-> ret, exc |-> exc, val |-> val]
\* the module and the one formatter:
\*   StreamClosed   the C static of that name
\*   exported       the attribute StreamClosed of the module
\*   made           PlainTextFormatter(stream) was called
\*   callable       self->stream_callable is set (the stream is no file)
\*   crashed        the process died
\*   broken, left   the stream fails with the error broken (its type and
\*                  errno) after left more calls; "none": it does not fail
FmtInit ==
  [StreamClosed |-> NULL, exported |-> NULL, made |-> FALSE, callable |-> FALSE,
   crashed |-> FALSE, broken |-> [exc |-> "none", val |-> NULL], left |-> 0,
   pos |-> 0, in_first_line |-> 1, wrote_something |-> 0,
   first_prefix |-> << >>, later_prefix |-> << >>,
   res |-> FResult("none", NULL, "none", NULL)]

\* normpath (src/src/posix.c), explored by SpecNorm
MaxPath == 4        \* characters of a path
MaxBelow == 2       \* bytes in front of a buffer that a scan looks at
Chars == {"/", ".", "a"}
NUL == "nul"        \* the byte 0 that ends a C string
Uninit == "?"       \* a byte of a new string object that was never written
Paths == UNION {[1..n -> Chars] : n \in 0..MaxPath}
NoPath == <<"-">>   \* no string: the NULL that a failed call returns
Lost == -(MaxBelow + 1)     \* a scan that ends at no byte: the process dies
\* one call of normpath and what is left of the call before it:
\*   pc        "idle", "loop" (in the while loop), "done", "segv"
\*   path      the argument; i: the index (from 1) of the byte path points at
\*   new_path  the bytes of the new string, indices 0..path_len (the last
\*             one is the terminating byte)
\*   write     write - new_path
\*   below     a byte in front of new_path was written
\*   ret, err  the result (a string or NULL) and the exception
\*   prev      the argument of the call before this one, when this one was
\*             made on its result; else NoPath
NormInit ==
  [pc |-> "idle", path |-> << >>, i |-> 1, new_path |-> << >>, write |-> 0,
   depth |-> 0, is_absolute |-> FALSE, below |-> FALSE,
   ret |-> NoPath, err |-> "none", prev |-> NoPath]

\* join (src/src/posix.c), explored by SpecJoin
MaxItems == 2       \* arguments of one join
MaxItemLen == 3     \* characters of one argument
JoinChars == {"/", "a"}
JoinItems == UNION {[1..n -> JoinChars] : n \in 0..MaxItemLen}
JoinArgs == UNION {[1..n -> JoinItems] : n \in 0..MaxItems}
\* the last call of join:
\*   args     its arguments
\*   len      the size the result was allocated with
\*   buf      the bytes of the result, indices 0..len (the last one is the
\*            terminating byte)
\*   written  buf - PyString_AS_STRING(ret) after the copy loop
\*   overrun  a byte behind the terminating byte was written
\*   err      the exception
JoinInit ==
  [args |-> << >>, len |-> 0, buf |-> << >>, written |-> 0, overrun |-> FALSE,
   err |-> "none"]

\* readlines (src/src/posix.c), explored by SpecLines
MaxBuf == 4         \* bytes of the file
\* a newline, another ASCII whitespace byte, a letter, a byte above 127
LineChars == {"\n", " ", "a", "h"}
Buffers == UNION {[1..n -> LineChars] : n \in 0..MaxBuf}
NoLine == <<"-">>   \* no string: the NULL that ends the iteration
\* the one readlines object:
\*   made              the object exists
\*   buf               the bytes between the first self->start and self->end
\*   start             self->start, as an offset into buf; self->end is
\*                     the offset Len(buf)
\*   strip_whitespace  self->strip_whitespace
\*   lines             history: the lines yielded so far
\*   ret               what the last call of next returned
LinesInit ==
  [made |-> FALSE, buf |-> << >>, start |-> 0, strip_whitespace |-> 1,
   lines |-> << >>, ret |-> NoLine]

\* the whirlpool helper (src/src/whirlpool_cdo.c), explored by SpecWhirl
NumTables == 8      \* C0 .. C7
MaxOdd == 2         \* arguments of one init that are no good table
TableIds == 0..(NumTables - 1)
\* an argument of init: a sequence of 256 entries that convert ("ok"), a
\* sequence of another length ("short"), a sequence of 256 entries one of
\* which does not convert ("bad")
TableKinds == {"ok", "short", "bad"}
InitArgs ==
  {a \in [TableIds -> TableKinds] :
     Cardinality({k \in TableIds : a[k] # "ok"}) <= MaxOdd}
\* the argument of CDo: a list of 8 integers, no list or tuple, a list of
\* less than 8 items, a list with an item that does not convert
CDoArgs == {"ok", "nolist", "less", "noint"}
True == -10         \* Py_True
SomeLong == -11     \* the long that CDo returns
\* the statics of the module and the last call:
\*   C               what every table holds: the zeros of a static ("zero"),
\*                   the 256 entries of an argument ("full"), the entries of
\*                   an argument up to one that did not convert ("part")
\*   is_initialized  the static of that name
\*   valid           history: an init call with eight good tables returned
\*   res             the last call: what it returned, the exception that
\*                   is set, whether a table of a wrong length was passed
\*                   and is_initialized before the call
WhirlInit ==
  [C |-> [k \in TableIds |-> "zero"], is_initialized |-> 0, valid |-> FALSE,
   res |-> [op |-> "none", ret |-> NULL, err |-> "none", short |-> FALSE, was |-> 0]]

\* the state of the two, one record:
\*   tp         the classes made by WeakInstMeta: self->inst_caching (also the
\*              value of __inst_caching__) and whether they have __weakref__
\*   inst_dict  self->inst_dict of every class: key -> the instance the
\*              stored weak reference refers to (it may be dead)
\*   inst       every instance: free, live or dead (deallocated, the callback
\*              of its weak reference still to run), and the class and key
\*              it was registered under
\*   ires       the last call on a class: ret, err, warning, constructor calls
\*   jit        the InternalJitAttr descriptor: its configuration
\*   slot       the owner's storage attribute: a value or Absent
\*   ncalls     history: invocations of the compute function
\*   nreads     history: reads on the owner since the descriptor was made
\*   first      history: the value the first read on the owner stored, or Absent
\*   jres       the last read: ret, err, compute calls, store path
VARIABLE ext

tp == ext.tp
inst_dict == ext.inst_dict
inst == ext.inst
ires == ext.ires
jit == ext.jit
slot == ext.slot
ncalls == ext.ncalls
nreads == ext.nreads
first == ext.first
jres == ext.jres
fmt == ext.fmt
norm == ext.norm
jn == ext.jn
rl == ext.rl
wp == ext.wp

vars == <<cacheVars, ext>>

\* ext in the specifications that make no class and no descriptor
NoExt == << >>

\* no class made, no instance; no descriptor made, the owner without the
\* storage attribute
ExtInit ==
  ext = [tp |-> [c \in Classes |-> NoType],
         inst_dict |-> [c \in Classes |-> << >>],
         inst |-> [o \in Insts |-> FreeInst],
         ires |-> IResult("none", NULL, "none", "none", 0, FALSE),
         jit |-> NoJit,
         slot |-> Absent,
         ncalls |-> 0,
         nreads |-> 0,
         first |-> Absent,
         jres |-> JResult("none", NULL, "none", 0, "none"),
         fmt |-> FmtInit,
         norm |-> NormInit,
         jn |-> JoinInit,
         rl |-> LinesInit,
         wp |-> WhirlInit]

\* a step of a class or an instance: the new tp, inst_dict, inst and ires
WimStep(tpN, dictN, instN, iresN) ==
  ext' = [ext EXCEPT !.tp = tpN, !.inst_dict = dictN, !.inst = instN, !.ires = iresN]

\* a step of the descriptor: the new jit, slot, ncalls, nreads, first, jres
JitStep(jitN, slotN, ncallsN, nreadsN, firstN, jresN) ==
  ext' = [ext EXCEPT !.jit = jitN, !.slot = slotN, !.ncalls = ncallsN,
                     !.nreads = nreadsN, !.first = firstN, !.jres = jresN]

\* a step of the formatter or its module
FmtStep(fmtN) == ext' = [ext EXCEPT !.fmt = fmtN]

\* a step of the readlines object
LinesStep(rlN) == ext' = [ext EXCEPT !.rl = rlN]

\* a call into the whirlpool helper
WhirlStep(wpN) == ext' = [ext EXCEPT !.wp = wpN]

\* a call of join
JoinStep(jnN) == ext' = [ext EXCEPT !.jn = jnN]

\* a step of normpath
NormStep(normN) == ext' = [ext EXCEPT !.norm = normN]

TypeOK ==
  /\ DOMAIN dict \subseteq HashableKeys
  /\ \A k \in DOMAIN dict : dict[k].obj \in Objs \cup {None} /\ dict[k].held \in BOOLEAN
  /\ armed \in [HashableKeys -> [Objs -> 0..NumRefs]]
  /\ queued \in [HashableKeys -> 0..NumRefs]
  /\ rc \in [Objs -> 0..(1 + MaxHeld)]
  /\ NumHeld <= MaxHeld
  /\ pc \in {"run", "abort", "segv"}
  /\ NumAlive <= NumRefs

CacheInit ==
  /\ dict = << >>
  /\ armed = [k \in HashableKeys |-> [o \in Objs |-> 0]]
  /\ queued = [k \in HashableKeys |-> 0]
  /\ rc = [o \in Objs |-> 1]
  /\ pc = "run"
  /\ res = Result("new", "-", NULL, "none")
  /\ stored = [k \in HashableKeys |-> None]
  /\ lastSet = NoSet

\* the cache made; WeakInstMeta and InternalJitAttr are not in use
Init == CacheInit /\ ext = NoExt

\* the cache made and idle; no class and no descriptor made yet
InitExt == CacheInit /\ ExtInit

\* ------------------------------------------------------------- setitem
\* PyDict_SetItem(self->dict, key, NULL): asserts in a debug build; in a
\* release build hashes the key, then increments the count of a null pointer
DeleteBranch(key) ==
  /\ lastSet' = NoSet
  /\ UNCHANGED <<dict, armed, queued, rc, stored>>
  /\ \/ /\ pc' = "abort"
        /\ res' = Result("del", "null", NULL, "none")
     \/ /\ ~Hashable(key)
        /\ pc' = pc
        /\ res' = Result("del", "null", -1, "TypeError")
     \/ /\ Hashable(key)
        /\ pc' = "segv"
        /\ res' = Result("del", "null", NULL, "none")

RejectWeakref(key, val) ==
  /\ res' = Result("set", val.t, -1, "TypeError")
  /\ lastSet' = NoSet
  /\ UNCHANGED <<dict, armed, queued, rc, pc, stored>>

\* a store that keeps the entry a key already has
StoreBranch_KeepOld(key, val) ==
  IF val.t = "plain" \/ ~Hashable(key)
  THEN /\ res' = Result("set", val.t, -1, "TypeError")
       /\ lastSet' = NoSet
       /\ UNCHANGED <<dict, armed, queued, rc, pc, stored>>
  ELSE /\ NumAlive < NumRefs
       /\ dict' = IF key \in DOMAIN dict THEN dict
                  ELSE With(dict, key, PyWeakref_NewRef(val))
       /\ res' = Result("set", val.t, 0, "none")
       /\ stored' = [stored EXCEPT ![key] = val.id]
       /\ lastSet' = [key |-> key, obj |-> val.id]
       /\ UNCHANGED <<armed, queued, rc, pc>>

\* a store that takes a strong reference to the value
StoreBranch_Incref(key, val) ==
  IF val.t = "plain" \/ ~Hashable(key)
  THEN /\ res' = Result("set", val.t, -1, "TypeError")
       /\ lastSet' = NoSet
       /\ UNCHANGED <<dict, armed, queued, rc, pc, stored>>
  ELSE /\ NumAlive < NumRefs
       /\ NumHeld < MaxHeld
       /\ dict' = With(dict, key, PyWeakref_NewRef(val))
       /\ queued' = QueuedAfter(queued, dict, {key})
       /\ armed' = ArmedAfter(armed, dict, {key})
       /\ rc' = [rc EXCEPT ![val.id] = @ + 1]
       /\ res' = Result("set", val.t, 0, "none")
       /\ stored' = [stored EXCEPT ![key] = val.id]
       /\ lastSet' = [key |-> key, obj |-> val.id]
       /\ UNCHANGED <<pc>>

\* the finalizer and the weak reference are created, PyDict_SetItem stores
\* the weak reference (letting go of the one the key had) and the local
\* references are dropped
StoreBranch(key, val) ==
  IF val.t = "plain" \/ ~Hashable(key)
  THEN \* PyWeakref_NewRef or PyDict_SetItem fails: the new objects are freed
       /\ res' = Result("set", val.t, -1, "TypeError")
       /\ lastSet' = NoSet
       /\ UNCHANGED <<dict, armed, queued, rc, pc, stored>>
  ELSE /\ NumAlive < NumRefs
       /\ dict' = With(dict, key, PyWeakref_NewRef(val))
       /\ queued' = QueuedAfter(queued, dict, {key})
       /\ armed' = ArmedAfter(armed, dict, {key})
       /\ res' = Result("set", val.t, 0, "none")
       /\ stored' = [stored EXCEPT ![key] = val.id]
       /\ lastSet' = [key |-> key, obj |-> val.id]
       /\ UNCHANGED <<rc, pc>>

snakeoil_WeakValCache_setitem(key, val) ==
  /\ pc = "run"
  /\ IF val = NullVal THEN DeleteBranch(key)
     ELSE IF PyWeakref_Check(val) THEN RejectWeakref(key, val)
     ELSE StoreBranch(key, val)

\* the values a caller can pass
Args == {NullVal, PlainVal, WRefVal} \cup {ObjVal(o) : o \in {x \in Objs : rc[x] > 0}}

\* ------------------------------------------------------------- getitem
\* what getitem returns, what it found and whether it deletes the entry
GetItem(key) ==
  LET resobj == PyDict_GetItem(dict, key) IN
  IF resobj.obj # NULL
  THEN LET actual == PyWeakref_GetObject(resobj) IN
       IF actual = None
       THEN [ret |-> NULL, err |-> "none", evict |-> TRUE, found |-> "dead"]
       ELSE [ret |-> actual, err |-> "none", evict |-> FALSE, found |-> "live"]
  ELSE [ret |-> NULL, err |-> "KeyError", evict |-> FALSE,
        found |-> IF Hashable(key) THEN "absent" ELSE "unhashable"]

\* the state change of getitem: a lazy eviction, or a new reference to the
\* value for the caller
GetItemEffect(key, g) ==
  /\ IF g.evict
     THEN /\ dict' = PyDict_DelItem(dict, key)
          /\ queued' = QueuedAfter(queued, dict, {key})
          /\ stored' = Present(stored, dict')
     ELSE UNCHANGED <<dict, queued, stored>>
  /\ IF g.ret # NULL
     THEN rc' = [rc EXCEPT ![g.ret] = @ + 1]
     ELSE UNCHANGED rc
  /\ UNCHANGED <<armed, pc, lastSet>>

snakeoil_WeakValCache_getitem(key) ==
  /\ pc = "run"
  /\ LET g == GetItem(key) IN
     /\ g.ret # NULL => NumHeld < MaxHeld
     /\ GetItemEffect(key, g)
     /\ res' = Result("getitem", g.found, g.ret, g.err)

\* ----------------------------------------------------------------- get
\* a get that answers a miss with None whatever default was passed
snakeoil_WeakValCache_get_NoDefault(size, key) ==
  /\ pc = "run"
  /\ IF size < 1 \/ size > 2
     THEN /\ res' = Result("get", "-", NULL, "TypeError")
          /\ UNCHANGED <<dict, armed, queued, rc, pc, stored, lastSet>>
     ELSE LET g == GetItem(key) IN
          /\ g.ret # NULL => NumHeld < MaxHeld
          /\ GetItemEffect(key, g)
          /\ IF g.ret # NULL
             THEN res' = Result("get", g.found, g.ret, "none")
             ELSE res' = Result("get", g.found, None, "none")

snakeoil_WeakValCache_get(size, key) ==
  /\ pc = "run"
  /\ IF size < 1 \/ size > 2
     THEN /\ res' = Result("get", "-", NULL, "TypeError")
          /\ UNCHANGED <<dict, armed, queued, rc, pc, stored, lastSet>>
     ELSE LET g == GetItem(key) IN
          /\ g.ret # NULL => NumHeld < MaxHeld
          /\ GetItemEffect(key, g)
          /\ IF g.ret # NULL
             THEN res' = Result("get", g.found, g.ret, "none")
             ELSE IF g.err # "none" /\ g.err # "KeyError"
             THEN res' = Result("get", g.found, NULL, g.err)
             ELSE res' = Result("get", g.found,
                               IF size = 2 THEN Dflt ELSE None, "none")

\* --------------------------------------------------------------- clear
\* a clear() that drops only the entries whose value is gone
snakeoil_WeakValCache_clear_DeadOnly ==
  /\ pc = "run"
  /\ LET dead == {k \in DOMAIN dict : dict[k].obj = None} IN
     /\ dict' = [k \in (DOMAIN dict) \ dead |-> dict[k]]
     /\ queued' = QueuedAfter(queued, dict, dead)
  /\ res' = Result("clear", "-", None, "none")
  /\ lastSet' = NoSet
  /\ stored' = Present(stored, dict')
  /\ UNCHANGED <<armed, rc, pc>>

snakeoil_WeakValCache_clear ==
  /\ pc = "run"
  /\ dict' = << >>
  /\ queued' = QueuedAfter(queued, dict, DOMAIN dict)
  /\ armed' = ArmedAfter(armed, dict, DOMAIN dict)
  /\ res' = Result("clear", "-", None, "none")
  /\ lastSet' = NoSet
  /\ stored' = Present(stored, << >>)
  /\ UNCHANGED <<rc, pc>>

\* -------------------------------------------------------------- values
\* PyDict_Values: a list of the stored weak-reference objects themselves;
\* the caller now holds them (holding one whose referent is gone changes
\* nothing: its callback is queued either way)
snakeoil_WeakValCache_values ==
  /\ pc = "run"
  /\ dict' = [k \in DOMAIN dict |-> [dict[k] EXCEPT !.held = (dict[k].obj # None)]]
  /\ res' = Result("values", "-", None, "none")
  /\ UNCHANGED <<armed, queued, rc, pc, stored, lastSet>>

\* ---------------------------------------------------- len, keys, items
\* a len() that counts only the entries whose value is alive
PyDict_Size_LiveOnly(d) == Cardinality({k \in DOMAIN d : d[k].obj # None})

\* PyDict_Size: the number of entries of the dict
PyDict_Size(d) == Cardinality(DOMAIN d)

\* PyDict_Keys: the keys of the dict
PyDict_Keys(d) == DOMAIN d

snakeoil_WeakValCache_len ==
  /\ pc = "run"
  /\ res' = Result("len", "-", PyDict_Size(dict), "none")
  /\ UNCHANGED <<dict, armed, queued, rc, pc, stored, lastSet>>

\* the length of the list of keys is what is recorded
snakeoil_WeakValCache_keys ==
  /\ pc = "run"
  /\ res' = Result("keys", "-", Cardinality(PyDict_Keys(dict)), "none")
  /\ UNCHANGED <<dict, armed, queued, rc, pc, stored, lastSet>>

\* an items() that resolves the weak references and drops the dead entries
snakeoil_WeakValCache_items_Evict ==
  /\ pc = "run"
  /\ LET dead == {k \in DOMAIN dict : dict[k].obj = None} IN
     /\ dict' = [k \in (DOMAIN dict) \ dead |-> [dict[k] EXCEPT !.held = TRUE]]
     /\ queued' = QueuedAfter(queued, dict, dead)
     /\ res' = Result("items", "-", Cardinality(DOMAIN dict'), "none")
     /\ stored' = Present(stored, dict')
  /\ UNCHANGED <<armed, rc, pc, lastSet>>

\* PyDict_Items: a list of (key, stored weak-reference object) pairs, one
\* for every entry; the caller now holds the weak-reference objects
snakeoil_WeakValCache_items ==
  /\ pc = "run"
  /\ dict' = [k \in DOMAIN dict |-> [dict[k] EXCEPT !.held = (dict[k].obj # None)]]
  /\ res' = Result("items", "-", Cardinality(DOMAIN dict), "none")
  /\ UNCHANGED <<armed, queued, rc, pc, stored, lastSet>>

\* the caller drops a weak-reference object it got from values(): one still
\* in the map (inMap) or one that left it
ReleaseRef(k, o, inMap) ==
  /\ pc = "run"
  /\ IF inMap
     THEN /\ k \in DOMAIN dict /\ dict[k].held /\ dict[k].obj = o
          /\ dict' = [dict EXCEPT ![k].held = FALSE]
          /\ UNCHANGED armed
     ELSE /\ armed[k][o] > 0
          /\ armed' = [armed EXCEPT ![k][o] = @ - 1]
          /\ UNCHANGED dict
  /\ res' = Result("release", "-", None, "none")
  /\ UNCHANGED <<queued, rc, pc, stored, lastSet>>

\* ----------------------------------------------------- value lifetime
\* the caller drops one reference to a value; at zero the object is
\* deallocated: every weak reference to it is cleared and its callback
\* is queued
Py_DECREF(o) ==
  /\ pc = "run"
  /\ rc[o] > 0
  /\ rc' = [rc EXCEPT ![o] = @ - 1]
  /\ IF rc[o] = 1
     THEN /\ dict' = [k \in DOMAIN dict |->
                        IF dict[k].obj = o THEN [obj |-> None, held |-> FALSE]
                        ELSE dict[k]]
          /\ queued' = [k \in HashableKeys |-> queued[k] + armed[k][o]]
          /\ armed' = [k \in HashableKeys |-> [armed[k] EXCEPT ![o] = 0]]
     ELSE UNCHANGED <<dict, queued, armed>>
  /\ res' = Result("decref", "-", None, "none")
  /\ UNCHANGED <<pc, stored, lastSet>>

\* ------------------------------------------------------- the finalizer
\* a callback that returns without deleting anything
snakeoil_WeakValFinalizer_call_NoDelete(key, inMap) ==
  /\ pc = "run"
  /\ IF inMap
     THEN /\ key \in DOMAIN dict /\ dict[key].obj = None
          /\ UNCHANGED queued
     ELSE /\ queued[key] > 0
          /\ queued' = [queued EXCEPT ![key] = @ - 1]
  /\ res' = Result("finalizer", "-", None, "none")
  /\ UNCHANGED <<dict, armed, rc, pc, stored, lastSet>>

\* a callback that empties the whole map
snakeoil_WeakValFinalizer_call_Clear(key, inMap) ==
  /\ pc = "run"
  /\ IF inMap
     THEN /\ key \in DOMAIN dict /\ dict[key].obj = None
          /\ queued' = QueuedAfter(queued, dict, (DOMAIN dict) \ {key})
     ELSE /\ queued[key] > 0
          /\ queued' = [QueuedAfter(queued, dict, DOMAIN dict) EXCEPT ![key] = @ - 1]
  /\ armed' = ArmedAfter(armed, dict, DOMAIN dict)
  /\ dict' = << >>
  /\ res' = Result("finalizer", "-", None, "none")
  /\ stored' = Present(stored, dict')
  /\ UNCHANGED <<rc, pc, lastSet>>

\* the weak-reference callback of a weak reference whose referent is gone,
\* the one stored under key (inMap) or one that left the map: del dict[key]
snakeoil_WeakValFinalizer_call(key, inMap) ==
  /\ pc = "run"
  /\ IF inMap
     THEN \* the entry's own callback: the entry it deletes is itself
          /\ key \in DOMAIN dict /\ dict[key].obj = None
          /\ queued' = queued
          /\ armed' = armed
     ELSE /\ queued[key] > 0
          /\ queued' = [QueuedAfter(queued, dict, {key}) EXCEPT ![key] = @ - 1]
          /\ armed' = ArmedAfter(armed, dict, {key})
  /\ LET err == PyDict_DelItemErr(dict, key) IN
     /\ dict' = PyDict_DelItem(dict, key)
     /\ res' = Result("finalizer", "-", IF err = "none" THEN None ELSE NULL, err)
  /\ stored' = Present(stored, dict')
  /\ UNCHANGED <<rc, pc, lastSet>>

\* the WeakValCache and its callers; WeakInstMeta and InternalJitAttr stand still
Next ==
  \/ /\ \E key \in Keys, val \in Args : snakeoil_WeakValCache_setitem(key, val)
     /\ UNCHANGED ext
  \/ /\ \E key \in Keys : snakeoil_WeakValCache_getitem(key)
     /\ UNCHANGED ext
  \/ /\ \E size \in 0..3 : \E key \in (IF size \in 1..2 THEN Keys ELSE {NoKey}) :
          snakeoil_WeakValCache_get(size, key)
     /\ UNCHANGED ext
  \/ /\ snakeoil_WeakValCache_clear
     /\ UNCHANGED ext
  \/ /\ snakeoil_WeakValCache_values
     /\ UNCHANGED ext
  \/ /\ \E k \in HashableKeys, o \in Objs, inMap \in BOOLEAN : ReleaseRef(k, o, inMap)
     /\ UNCHANGED ext
  \/ /\ \E o \in Objs : Py_DECREF(o)
     /\ UNCHANGED ext
  \/ /\ \E key \in HashableKeys, inMap \in BOOLEAN :
          snakeoil_WeakValFinalizer_call(key, inMap)
     /\ UNCHANGED ext

Spec == Init /\ [][Next]_vars

\* the weak-reference machinery runs the callback of every weak reference
\* whose referent is gone; only the callbacks of the references still in the
\* map are assumed here
SpecLive ==
  Spec /\ \A key \in HashableKeys :
            WF_vars(/\ snakeoil_WeakValFinalizer_call(key, TRUE)
                    /\ UNCHANGED ext)

\* the cache with its read-only operations as well
NextView ==
  \/ Next
  \/ /\ snakeoil_WeakValCache_len
     /\ UNCHANGED ext
  \/ /\ snakeoil_WeakValCache_keys
     /\ UNCHANGED ext
  \/ /\ snakeoil_WeakValCache_items
     /\ UNCHANGED ext

SpecView == Init /\ [][NextView]_vars

\* ---------------------------------------------------------- the claims
LiveEntry(k) == k \in DOMAIN dict /\ dict[k].obj # None
DeadEntry(k) == k \in DOMAIN dict /\ dict[k].obj = None

\* C1: after set(K, V), with no set, delete or clear since and V still held
\* by the caller, a lookup of K returns the very object V.
C1_SetThenLookup ==
  [][\A k \in HashableKeys :
       (lastSet.key = k /\ rc[lastSet.obj] > 0 /\ snakeoil_WeakValCache_getitem(k))
         => (res'.ret = lastSet.obj /\ res'.err = "none")]_vars

\* C2: a finalizer called when its key is already absent from the map raises
\* no error and leaves the map without the key.
C2_FinalizerIdempotent ==
  [][\A k \in HashableKeys :
       (k \notin DOMAIN dict /\ snakeoil_WeakValFinalizer_call(k, FALSE))
         => (res'.err = "none" /\ k \notin DOMAIN dict')]_vars

\* C3: getitem of a key whose entry is present but whose referent is gone
\* deletes the entry and signals KeyError.
C3_DeadLookupKeyError ==
  [][\A k \in HashableKeys :
       (DeadEntry(k) /\ snakeoil_WeakValCache_getitem(k))
         => (k \notin DOMAIN dict' /\ res'.ret = NULL /\ res'.err = "KeyError")]_vars

\* C4: once the value of an entry is gone and the weak-reference machinery
\* gets to run its callbacks, the entry is eventually removed (the key is
\* absent, or a later set gave it a live value), as long as the process runs.
C4_EventuallyEvicted ==
  \A k \in HashableKeys : DeadEntry(k) ~> (~DeadEntry(k) \/ pc # "run")

\* the finalizer of a dead value has run and removed its entry
C4_Witness ==
  /\ res.op = "finalizer" /\ res.err = "none"
  /\ DOMAIN dict = {}
  /\ \E o \in Objs : rc[o] = 0 /\ lastSet.obj = o

\* C5: every entry of the map resolves to the object most recently stored
\* under its key, or to "gone"; never to another object.
C5_EntryIdentity ==
  \A k \in DOMAIN dict : PyWeakref_GetObject(dict[k]) \in {stored[k], None}

\* a key was stored twice with different live objects: the entry resolves to
\* the second while a weak reference to the first is still around
C5_Witness ==
  \E k \in DOMAIN dict, o \in Objs :
    /\ armed[k][o] > 0
    /\ o # stored[k]
    /\ PyWeakref_GetObject(dict[k]) = stored[k]

\* C6: a set of (K, V2) over an existing entry of K leaves exactly one entry
\* for K, a lookup of K then returns V2, and the cache takes no reference to
\* any value (the old one included).  The step is found by the key and
\* value it records.
C6_Overwrite ==
  [][(res'.op = "set" /\ res'.err = "none") =>
       \A k \in DOMAIN dict, o \in Objs :
         (lastSet'.key = k /\ lastSet'.obj = o
            /\ snakeoil_WeakValCache_setitem(k, ObjVal(o)))
           => /\ DOMAIN dict' = DOMAIN dict
              /\ GetItem(k)'.ret = o
              /\ rc' = rc]_vars

\* the set just made replaced an entry whose value V1 is alive and differs
\* from the new value V2
C6_Witness ==
  /\ res.op = "set" /\ res.err = "none"
  /\ lastSet.key \in DOMAIN dict
  /\ \E o \in Objs : o # lastSet.obj /\ armed[lastSet.key][o] > 0 /\ rc[o] = 1
  /\ rc[lastSet.obj] = 1

\* C7: a set whose value is a weak-reference object fails with TypeError and
\* leaves the map as it was.
C7_RejectWeakrefValue ==
  [][res'.case = "wref" =>
     \A k \in Keys :
       snakeoil_WeakValCache_setitem(k, WRefVal)
         => /\ res'.err = "TypeError" /\ res'.ret = -1
            /\ dict' = dict /\ armed' = armed /\ queued' = queued]_vars

\* a set with a weak-reference value was refused while every key was present
C7_Witness ==
  /\ res.op = "set" /\ res.case = "wref" /\ res.err = "TypeError"
  /\ DOMAIN dict = HashableKeys

\* C8: deleting a key removes its entry: the key is absent afterwards, len()
\* is one less, and every other entry is unchanged.
C8_DeleteRemoves ==
  [][\A k \in HashableKeys :
       (k \in DOMAIN dict /\ snakeoil_WeakValCache_setitem(k, NullVal))
         => /\ pc' = "run"
            /\ res'.err = "none"
            /\ dict' = Without(dict, k)
            /\ Cardinality(DOMAIN dict') = Cardinality(DOMAIN dict) - 1]_vars

\* C9: a lookup with an unhashable key, by getitem or by get, signals a
\* TypeError; it is not reported as a miss and get does not return a default.
C9_UnhashableLookup ==
  [][\A k \in UnhashableKeys :
       (snakeoil_WeakValCache_getitem(k)
          \/ \E size \in 1..2 : snakeoil_WeakValCache_get(size, k))
         => (res'.err = "TypeError" /\ res'.ret = NULL)]_vars

\* C10: get(K, default) returns the live value stored under K; when K is
\* absent or its referent is gone it returns the default (None without one)
\* and raises nothing, and a dead entry is removed from the map.
C10_GetDefault ==
  [][res'.op = "get" =>
     \A k \in HashableKeys, size \in 1..2 :
       snakeoil_WeakValCache_get(size, k)
         => /\ res'.err = "none"
            /\ LiveEntry(k) => res'.ret = PyWeakref_GetObject(dict[k]) /\ dict' = dict
            /\ ~LiveEntry(k) => res'.ret = (IF size = 2 THEN Dflt ELSE None)
            /\ DeadEntry(k) => k \notin DOMAIN dict'
            /\ ~DeadEntry(k) => dict' = dict]_vars

\* a get with a default met a dead entry, removed it and returned the default
C10_Witness ==
  /\ res.op = "get" /\ res.case = "dead" /\ res.ret = Dflt /\ res.err = "none"
  /\ \E k \in HashableKeys : queued[k] > 0 /\ k \notin DOMAIN dict

\* ------------------------------------------------------------ WeakInstMeta
\* (src/src/caching.c, the metaclass for instance caching)
MaxKw == 2          \* keyword arguments in one construction

DisableStr == "disable_inst_caching"    \* snakeoil_caching_disable_str
UnhashableArg == 9                      \* an argument that cannot be hashed
BadHashArg == 8                         \* an argument whose __hash__ raises ValueError
BadTruth == -6                          \* PyObject_IsTrue raises on it

\* positional argument tuples a caller constructs with
ArgTuples == {<<1>>, <<2>>, <<UnhashableArg>>, <<BadHashArg>>}

\* keyword arguments, as the sequence of items the kwargs dict yields them in
KwItems == {<<"a", 1>>, <<"b", 2>>} \cup {<<DisableStr, v>> : v \in {0, 1, BadTruth}}
\* the keyword dicts of the constructions, in the order PyDict_Items gives
\* their items; the keywords a and b are given together
KwArgs ==
  {kw \in UNION {[1..n -> KwItems] : n \in 0..MaxKw} :
     /\ \A i, j \in DOMAIN kw : i # j => kw[i][1] # kw[j][1]
     /\ (\E i \in DOMAIN kw : kw[i][1] = "a") <=> (\E i \in DOMAIN kw : kw[i][1] = "b")}

KwNames(kw) == {kw[i][1] : i \in DOMAIN kw}

\* PyObject_IsTrue: 1, 0 or -1 with an error set
PyObject_IsTrue(v) == IF v = BadTruth THEN -1 ELSE IF v = 0 THEN 0 ELSE 1

\* PyDict_GetItem(kwargs, name): the value, or NULL
KwGet(kw, name) ==
  IF name \in KwNames(kw)
  THEN kw[CHOOSE i \in DOMAIN kw : kw[i][1] = name][2]
  ELSE NULL

RECURSIVE KwDel(_, _)
\* PyDict_DelItem(kwargs, name)
KwDel(kw, name) ==
  IF kw = << >> THEN << >>
  ELSE IF Head(kw)[1] = name THEN KwDel(Tail(kw), name)
  ELSE <<Head(kw)>> \o KwDel(Tail(kw), name)

\* the order of str objects: "a" < "b" < "disable_inst_caching"
NameRank(n) == IF n = "a" THEN 1 ELSE IF n = "b" THEN 2 ELSE 3

\* a list kept in the order PyDict_Items gave
PyList_Sort_Skip(l) == l

RECURSIVE PyList_Sort(_)
\* PyList_Sort of a list of (name, value) items whose names differ
PyList_Sort(l) ==
  IF Len(l) <= 1 THEN l
  ELSE LET m == CHOOSE i \in 1..Len(l) :
                  \A j \in 1..Len(l) : NameRank(l[i][1]) <= NameRank(l[j][1])
       IN <<l[m]>> \o PyList_Sort([i \in 1..(Len(l) - 1) |->
                                     IF i < m THEN l[i] ELSE l[i + 1]])

\* the keywords reach the constructor as they were passed
CtorKw_Keep(kw) == kw

\* the kwargs the real constructor is given: the bypass keyword is deleted
\* whenever it was passed
CtorKw(kw) == IF KwGet(kw, DisableStr) # NULL THEN KwDel(kw, DisableStr) ELSE kw

\* PyTuple_Pack(2, args, kwtuple): kwtuple is None for no keyword at all,
\* else the tuple of the remaining items, sorted if more than one was passed
InstKey(args, kw) ==
  LET len == Len(kw) IN
  IF len = 0
  THEN [args |-> args, kw |-> [t |-> "none", items |-> << >>]]
  ELSE LET kwlist == CtorKw(kw) IN
       [args |-> args,
        kw |-> [t |-> "tuple",
                items |-> IF len > 1 THEN PyList_Sort(kwlist) ELSE kwlist]]

\* a hash whose every failure is taken for a TypeError
PyObject_HashErr_TypeOnly(key) ==
  IF \/ \E i \in DOMAIN key.args : key.args[i] \in {UnhashableArg, BadHashArg}
     \/ \E i \in DOMAIN key.kw.items : key.kw.items[i][2] = UnhashableArg
  THEN "TypeError"
  ELSE "none"

\* the error PyObject_Hash of the key sets: that of the first element
\* that does not hash, "none" when all do
PyObject_HashErr(key) ==
  IF \E i \in DOMAIN key.args : key.args[i] \in {UnhashableArg, BadHashArg}
  THEN LET i == CHOOSE j \in DOMAIN key.args :
                  /\ key.args[j] \in {UnhashableArg, BadHashArg}
                  /\ \A m \in 1..(j - 1) : key.args[m] \notin {UnhashableArg, BadHashArg}
       IN IF key.args[i] = UnhashableArg THEN "TypeError" ELSE "ValueError"
  ELSE IF \E i \in DOMAIN key.kw.items : key.kw.items[i][2] = UnhashableArg
  THEN "TypeError"
  ELSE "none"

\* PyObject_Hash of the key succeeds
IKeyHashable(key) == PyObject_HashErr(key) = "none"

\* an instance is registered in the cache of class c under key: the weak
\* reference stored there refers to it
InDict(o) ==
  /\ inst[o].cls \in Classes
  /\ inst[o].key \in DOMAIN inst_dict[inst[o].cls]
  /\ inst_dict[inst[o].cls][inst[o].key] = o

FreeInsts == {o \in Insts : inst[o].st = "free"}
\* the object PyType_Type.tp_call allocates
NewInst == CHOOSE o \in FreeInsts : \A p \in FreeInsts : o <= p

\* bases of the classes: class U(T); T derives from object
BaseOf(c) == IF c = "U" THEN "T" ELSE NoCls

\* PyObject_HasAttrString(base, "__weakref__")
HasWeakrefAttr(base) ==
  base \in Classes /\ tp[base].weakref

\* a class made without the flag takes the setting of its base
snakeoil_WeakInstMeta_new_Inherit(c, declared, hasSlots) ==
  /\ ~tp[c].made
  /\ BaseOf(c) \in Classes => tp[BaseOf(c)].made
  /\ declared # "bad"
  /\ WimStep([tp EXCEPT ![c] =
                [made |-> TRUE,
                 inst_caching |-> IF declared = "true" THEN 1
                                  ELSE IF declared = "absent" /\ BaseOf(c) \in Classes
                                  THEN tp[BaseOf(c)].inst_caching ELSE 0,
                 weakref |-> TRUE]],
             inst_dict, inst,
             IResult("new", None, "none", "none", 0, FALSE))
  /\ UNCHANGED cacheVars

\* type.__new__ through the metaclass: class c is made from a class dict
\* that declares __inst_caching__ (declared) and __slots__ (hasSlots) or not
snakeoil_WeakInstMeta_new(c, declared, hasSlots) ==
  /\ ~tp[c].made
  /\ BaseOf(c) \in Classes => tp[BaseOf(c)].made
  /\ IF declared = "bad"
     THEN \* PyObject_IsTrue(cachesetting) < 0
          WimStep(tp, inst_dict, inst,
                  IResult("new", NULL, "Error", "none", 0, FALSE))
     ELSE LET inst_caching == IF declared = "true" THEN 1 ELSE 0
              \* "__weakref__" is appended to the declared __slots__
              append == inst_caching = 1 /\ hasSlots /\ ~HasWeakrefAttr(BaseOf(c))
              weakref == ~hasSlots \/ append \/ HasWeakrefAttr(BaseOf(c))
          IN WimStep([tp EXCEPT ![c] =
                        [made |-> TRUE, inst_caching |-> inst_caching,
                         weakref |-> weakref]],
                     inst_dict, inst,
                     IResult(IF append THEN "new+weakref" ELSE "new",
                             None, "none", "none", 0, FALSE))
  /\ UNCHANGED cacheVars

\* one dict that all the types share
InstDictSet_Shared(d, c, key, o) == [x \in DOMAIN d |-> With(d[x], key, o)]

\* PyDict_SetItem(self->inst_dict, key, weakref): self->inst_dict is the dict
\* that snakeoil_WeakInstMeta_new made for this type alone
InstDictSet(d, c, key, o) == [d EXCEPT ![c] = With(@, key, o)]

\* PyType_Type.tp_call(self, args, kwargs): the real constructor, which
\* returns a new instance (ctor = "ok", "noweak") or fails
Construct(c, kw, ctor, op) ==
  IF ctor = "fail"
  THEN WimStep(tp, inst_dict, inst,
               IResult(op, NULL, "Error", "none", 1, DisableStr \in KwNames(kw)))
  ELSE /\ FreeInsts # {}
       /\ WimStep(tp, inst_dict,
                  [inst EXCEPT ![NewInst] = [st |-> "live", cls |-> NoCls, key |-> NoIKey]],
                  IResult(op, NewInst, "none", "none", 1, DisableStr \in KwNames(kw)))

\* a lookup that does not test whether the referent is alive
CacheHit_Dead(c, key) ==
  /\ IKeyHashable(key)
  /\ key \in DOMAIN inst_dict[c]

\* the lookup of the key finds a weak reference whose referent is alive
CacheHit(c, key) ==
  /\ IKeyHashable(key)
  /\ key \in DOMAIN inst_dict[c]
  /\ inst[inst_dict[c][key]].st = "live"

\* the bypass keyword is given and PyObject_IsTrue of its value is r
FlagIs(kw, r) ==
  Len(kw) > 0 /\ KwGet(kw, DisableStr) # NULL /\ PyObject_IsTrue(KwGet(kw, DisableStr)) = r

\* the call reaches PyType_Type.tp_call
CallsCtor(c, args, kw) ==
  \/ tp[c].inst_caching = 0
  \/ FlagIs(kw, 1)
  \/ ~FlagIs(kw, -1) /\ ~CacheHit(c, InstKey(args, kw))

\* the call reaches PyErr_Warn
WarnsUnhashable(c, args, kw) ==
  /\ tp[c].inst_caching = 1
  /\ ~FlagIs(kw, 1) /\ ~FlagIs(kw, -1)
  /\ PyObject_HashErr(InstKey(args, kw)) = "TypeError"

\* type.__call__ through the metaclass: c(*args, **kw).  ctor is what the
\* real constructor does (it returns an instance, fails, or returns an
\* instance that cannot be weakly referenced); warn is what emitting the
\* unhashable-key warning does (emitted, raised as an error by the warnings
\* filter, or the message could not be formatted)
snakeoil_WeakInstMeta_call(c, args, kw, ctor, warn) ==
  /\ tp[c].made
  /\ UNCHANGED cacheVars
  /\ IF tp[c].inst_caching = 0
     THEN Construct(c, kw, ctor, "call")
     ELSE
     LET key == InstKey(args, kw) IN
     IF FlagIs(kw, -1)
     THEN WimStep(tp, inst_dict, inst,
                  IResult("call", NULL, "Error", "none", 0, FALSE))
     ELSE IF FlagIs(kw, 1)
     THEN Construct(c, CtorKw(kw), ctor, "bypass")
     ELSE IF CacheHit(c, key)
     THEN WimStep(tp, inst_dict, inst,
                  IResult("hit", inst_dict[c][key], "none", "none", 0, FALSE))
     ELSE IF ctor = "fail"
     THEN WimStep(tp, inst_dict, inst,
                  IResult("miss", NULL, "Error", "none", 1, FALSE))
     ELSE
     /\ FreeInsts # {}
     /\ IF ctor = "noweak"
        THEN \* PyWeakref_NewRef fails; the instance is released
             WimStep(tp, inst_dict, inst,
                     IResult("miss", NULL, "TypeError", "none", 1, FALSE))
        ELSE IF IKeyHashable(key)
        THEN \* PyDict_SetItem(self->inst_dict, key, weakref)
             WimStep(tp,
                     InstDictSet(inst_dict, c, key, NewInst),
                     [inst EXCEPT ![NewInst] = [st |-> "live", cls |-> c, key |-> key]],
                     IResult("miss", NewInst, "none", "none", 1, FALSE))
        ELSE IF PyObject_HashErr(key) # "TypeError"
        THEN \* PyDict_SetItem fails with another exception: resobj = NULL
             \* without a Py_DECREF, the exception is left set
             WimStep(tp, inst_dict, inst,
                     IResult("regfail", NULL, PyObject_HashErr(key), "none", 1, FALSE))
        ELSE \* TypeError from PyDict_SetItem: the warning
             IF warn = "raised"
             THEN \* resobj = NULL without a Py_DECREF: the instance leaks,
                  \* no reference to it is left and it is not counted
                  WimStep(tp, inst_dict, inst,
                          IResult("unhashable", NULL, "UserWarning", warn, 1, FALSE))
             ELSE WimStep(tp, inst_dict,
                          [inst EXCEPT ![NewInst] = [st |-> "live", cls |-> NoCls, key |-> NoIKey]],
                          IResult("unhashable", NewInst,
                                  IF warn = "emitted" THEN "none" ELSE "Error",
                                  warn, 1, FALSE))

\* the program drops its last reference to instance o: tp_dealloc.  When the
\* weak reference made for o is still in the cache its callback (the
\* finalizer) is pending; otherwise the weak reference is gone with its entry
InstDealloc(o) ==
  /\ inst[o].st = "live"
  /\ WimStep(tp, inst_dict,
             [inst EXCEPT ![o] = IF InDict(o) THEN [@ EXCEPT !.st = "dead"] ELSE FreeInst],
             IResult("dealloc", None, "none", "none", 0, FALSE))
  /\ UNCHANGED cacheVars

\* the finalizer made for instance o is called with its dead weak reference:
\* PyDict_DelItem(self->dict, self->key) on whatever entry is under the key
WeakInstFinalizer_call(o) ==
  /\ inst[o].st = "dead"
  /\ LET c == inst[o].cls
         key == inst[o].key
     IN WimStep(tp,
                [inst_dict EXCEPT ![c] = Without(@, key)],
                [inst EXCEPT ![o] = FreeInst],
                IResult("finalize", IF key \in DOMAIN inst_dict[c] THEN None ELSE NULL,
                        IF key \in DOMAIN inst_dict[c] THEN "none" ELSE "KeyError",
                        "none", 0, FALSE))
  /\ UNCHANGED cacheVars

CtorOutcomes == {"ok", "fail", "noweak"}
WarnOutcomes == {"emitted", "raised", "unformatted"}
Declarations == {"absent", "true", "false", "bad"}
\* the outcomes that the call can tell apart
CtorChoices(c, args, kw) ==
  IF tp[c].made /\ CallsCtor(c, args, kw) THEN CtorOutcomes ELSE {"ok"}
WarnChoices(c, args, kw, ctor) ==
  IF ctor = "ok" /\ WarnsUnhashable(c, args, kw) THEN WarnOutcomes ELSE {"emitted"}

NextInst ==
  \/ \E c \in Classes, declared \in Declarations, hasSlots \in BOOLEAN :
       snakeoil_WeakInstMeta_new(c, declared, hasSlots)
  \/ \E c \in Classes, args \in ArgTuples, kw \in KwArgs :
       \E ctor \in CtorChoices(c, args, kw) :
         \E warn \in WarnChoices(c, args, kw, ctor) :
           snakeoil_WeakInstMeta_call(c, args, kw, ctor, warn)
  \/ \E o \in Insts : InstDealloc(o)
  \/ \E o \in Insts : WeakInstFinalizer_call(o)

SpecInst == InitExt /\ [][NextInst]_vars

\* --------------------------------------------- the claims on WeakInstMeta
\* the live instances made by the caching path of class c for the key
MadeFor(c, key) ==
  {o \in Insts : inst[o].st = "live" /\ inst[o].cls = c /\ inst[o].key = key}

\* C11: for a class that opted in, a construction with positional arguments
\* equal to those of an earlier keyword-free construction whose result is
\* still alive returns that identical object; constructions whose keys
\* differ return distinct objects.
C11_SameArgsSameObject ==
  [][\A c \in Classes, args \in ArgTuples :
       (tp[c].made /\ tp[c].inst_caching = 1) =>
         \A ctor \in CtorOutcomes, warn \in WarnOutcomes :
           snakeoil_WeakInstMeta_call(c, args, << >>, ctor, warn) =>
             /\ MadeFor(c, InstKey(args, << >>)) # {} =>
                  ires'.ret \in MadeFor(c, InstKey(args, << >>))
             /\ \A o \in Insts :
                  (inst[o].st = "live" /\ inst[o].key # InstKey(args, << >>)) =>
                    ires'.ret # o]_vars

\* C12: a construction of an opted-in class with a truthy bypass keyword
\* calls the real constructor once without that keyword, returns the
\* instance it made (an object that did not exist before and that no cache
\* entry refers to) and leaves the instance cache of the class as it was.
C12_BypassFresh ==
  [][ires'.op = "bypass" =>
       \A c \in Classes, args \in ArgTuples, kw \in KwArgs :
         (tp[c].made /\ tp[c].inst_caching = 1 /\ FlagIs(kw, 1)) =>
           \A ctor \in {"ok", "noweak"} :
             snakeoil_WeakInstMeta_call(c, args, kw, ctor, "emitted") =>
               /\ ires'.ctor = 1 /\ ~ires'.cflag
               /\ ires'.err = "none"
               /\ ires'.ret \in Insts
               /\ inst[ires'.ret].st = "free"
               /\ inst'[ires'.ret].st = "live"
               /\ inst_dict' = inst_dict
               /\ \A d \in Classes : \A key \in DOMAIN inst_dict'[d] :
                    inst_dict'[d][key] # ires'.ret]_vars

\* a bypassing construction returned an instance while the cache of the
\* class held a live instance
C12_Witness ==
  /\ ires.op = "bypass"
  /\ ires.ret \in Insts
  /\ \E c \in Classes : \E key \in DOMAIN inst_dict[c] :
       inst[inst_dict[c][key]].st = "live"

\* C13: the bypass keyword takes no part in the key: a construction that
\* passes it with a false value computes the key of the same construction
\* made without it, also when it is the only keyword, and so returns the
\* instance cached by that construction.
C13_FalseFlagSameKey ==
  [][ires'.op \in {"hit", "miss", "unhashable"} =>
       \A c \in Classes, args \in ArgTuples, kw \in KwArgs :
         (tp[c].made /\ tp[c].inst_caching = 1 /\ FlagIs(kw, 0)) =>
           \A ctor \in CtorOutcomes, warn \in WarnOutcomes :
             snakeoil_WeakInstMeta_call(c, args, kw, ctor, warn) =>
               /\ InstKey(args, kw) = InstKey(args, CtorKw(kw))
               /\ CacheHit(c, InstKey(args, CtorKw(kw))) =>
                    ires'.ret = inst_dict[c][InstKey(args, CtorKw(kw))]]_vars

\* the orders PyDict_Items can give the items of one keyword dict
SameKw(kw1, kw2) ==
  /\ Len(kw1) = Len(kw2)
  /\ {kw1[i] : i \in DOMAIN kw1} = {kw2[i] : i \in DOMAIN kw2}

\* C14: the key does not depend on the order of the keywords: two keyword
\* dicts with the same items in different orders give equal keys, and a
\* construction with one order returns the live instance cached with another.
C14_KeywordOrder ==
  [][ires'.op = "hit" =>
       \A c \in Classes, args \in ArgTuples, kw1 \in KwArgs :
         (tp[c].made /\ tp[c].inst_caching = 1 /\ CacheHit(c, InstKey(args, kw1))) =>
           \A kw2 \in KwArgs :
             (/\ SameKw(kw1, kw2)
              /\ snakeoil_WeakInstMeta_call(c, args, kw2, "ok", "emitted")) =>
               /\ InstKey(args, kw1) = InstKey(args, kw2)
               /\ ires'.ret = inst_dict[c][InstKey(args, kw1)]]_vars

\* a construction with the keywords b, a returned the instance that is
\* cached under the key of a, b
C14_Witness ==
  /\ ires.op = "hit"
  /\ InstKey(<<1>>, <<(<<"b", 2>>), (<<"a", 1>>)>>) \in DOMAIN inst_dict["T"]
  /\ ires.ret = inst_dict["T"][InstKey(<<1>>, <<(<<"a", 1>>), (<<"b", 2>>)>>)]

\* C15: a construction of an opted-in class whose key is unhashable returns
\* the instance it constructed, emits the warning without an error, and
\* leaves the instance cache without an entry for the key.
C15_UnhashableUncached ==
  [][ires'.op = "unhashable" =>
       \A c \in Classes, args \in ArgTuples, kw \in KwArgs :
         (tp[c].made /\ WarnsUnhashable(c, args, kw)) =>
           \A warn \in WarnOutcomes :
             snakeoil_WeakInstMeta_call(c, args, kw, "ok", warn) =>
               /\ ires'.ret \in Insts
               /\ inst[ires'.ret].st = "free" /\ inst'[ires'.ret].st = "live"
               /\ ires'.err = "none"
               /\ ires'.warn = "emitted"
               /\ inst_dict' = inst_dict
               /\ InstKey(args, kw) \notin DOMAIN inst_dict'[c]]_vars

\* C16: the unhashable-key warning never aborts the construction: whatever
\* emitting it does, the call returns the instance it constructed.
C16_WarningNeverAborts ==
  [][ires'.op = "unhashable" =>
       \A c \in Classes, args \in ArgTuples, kw \in KwArgs :
         (tp[c].made /\ WarnsUnhashable(c, args, kw)) =>
           \A warn \in WarnOutcomes :
             snakeoil_WeakInstMeta_call(c, args, kw, "ok", warn) =>
               /\ ires'.ret # NULL
               /\ ires'.ret \in Insts /\ inst'[ires'.ret].st = "live"]_vars

\* C17: caching is enabled for a class only when its own declaration sets
\* __inst_caching__ to a true value: a class made without the flag, or with
\* a false one, has inst_caching 0 whatever its base has, and every
\* construction of it goes to the real constructor with the arguments as
\* passed, returns a new object and touches no instance cache.
C17_OptInOnly ==
  [][/\ ires'.op \in {"new", "new+weakref"} =>
          \A c \in Classes, declared \in Declarations, hasSlots \in BOOLEAN :
            snakeoil_WeakInstMeta_new(c, declared, hasSlots) =>
              IF declared = "bad"
              THEN ~tp'[c].made /\ ires'.ret = NULL
              ELSE /\ tp'[c].made
                   /\ (tp'[c].inst_caching = 1) <=> (declared = "true")
                   /\ inst_dict'[c] = << >>
     /\ ires'.op = "call" =>
          \A c \in Classes, args \in ArgTuples, kw \in KwArgs :
            (tp[c].made /\ tp[c].inst_caching = 0) =>
              \A ctor \in {"ok", "noweak"} :
                snakeoil_WeakInstMeta_call(c, args, kw, ctor, "emitted") =>
                  /\ ires'.ctor = 1
                  /\ ires'.cflag = (DisableStr \in KwNames(kw))
                  /\ ires'.ret \in Insts
                  /\ inst[ires'.ret].st = "free" /\ inst'[ires'.ret].st = "live"
                  /\ inst_dict' = inst_dict
                  /\ inst_dict'[c] = << >>]_vars

\* class U, made without the flag from the caching class T, constructed an
\* instance while T's cache held one for equal arguments
C17_Witness ==
  /\ tp["T"].inst_caching = 1
  /\ tp["U"].made /\ tp["U"].inst_caching = 0
  /\ ires.op = "call" /\ ires.ret \in Insts
  /\ inst_dict["T"] # << >>

\* ------------------------------------------------------- InternalJitAttr
\* the memoized attribute of src/src/klass.c on one owner instance
FuncFails == -7     \* the compute function raises
Values == {None, Sentinel, 1, 2}        \* what the compute function returns
Singletons == {NULL, None, Sentinel}    \* singleton= as passed; NULL: not passed
Truths == {NULL, 0, 1, BadTruth}        \* a flag as passed; NULL: not passed
ObjArgs == {"NULL", "None", "inst"}     \* the obj argument of __get__

\* every access is taken for one on an instance
IsTypeAccess_Never(obj) == FALSE

\* the descriptor was reached through the type: no instance
IsTypeAccess(obj) == obj = "NULL" \/ obj = "None"

\* the result is returned without being stored
SetAttrSlot_Skip(setok, result, old) == old

\* the slot after PyObject_SetAttr / PyObject_GenericSetAttr of result
SetAttrSlot(setok, result, old) == IF setok THEN result ELSE old

\* the stored value is never looked at
UseSingleton_Never(j) == FALSE

\* whether the stored value is looked at before computing
UseSingleton(j) == j.use_singleton # 0

\* only an absent slot counts as unset
IsUnset_AbsentOnly(j, s) == s = Absent

\* the lookup of the slot failed with AttributeError, or it gave the very
\* object self->singleton (pointer comparison)
IsUnset(j, s) == s = Absent \/ s = j.singleton

\* every error of the lookup is cleared
OtherError_Cleared(getfail) == FALSE

\* the lookup failed and PyErr_ExceptionMatches(PyExc_AttributeError) is false
OtherError(getfail) == getfail

\* the result is always stored with PyObject_GenericSetAttr
StorePath_Generic(j) == "generic"

\* which call stores the result: PyObject_SetAttr, which goes through the
\* owner's tp_setattro, or PyObject_GenericSetAttr, which does not
StorePath(j) == IF j.use_setattr # 0 THEN "setattr" ELSE "generic"

\* InternalJitAttr(func, attr_name, singleton=, use_cls_setattr=,
\* use_singleton=): the descriptor is made and put on the owner's class
snakeoil_InternalJitAttr_new(singleton, use_setattr_obj, use_singleton_obj) ==
  /\ ~jit.made
  /\ UNCHANGED cacheVars
  /\ IF \/ use_setattr_obj # NULL /\ PyObject_IsTrue(use_setattr_obj) = -1
        \/ use_singleton_obj # NULL /\ PyObject_IsTrue(use_singleton_obj) = -1
     THEN JitStep(jit, slot, ncalls, nreads, first,
                  JResult("new", NULL, "Error", 0, "none"))
     ELSE JitStep([made |-> TRUE,
                   use_singleton |-> IF use_singleton_obj = NULL THEN 1
                                     ELSE PyObject_IsTrue(use_singleton_obj),
                   use_setattr |-> IF use_setattr_obj = NULL THEN 0
                                   ELSE PyObject_IsTrue(use_setattr_obj),
                   singleton |-> IF singleton = NULL THEN None ELSE singleton],
                  slot, ncalls, nreads, first,
                  JResult("new", Descr, "none", 0, "none"))

\* descr.__get__(obj, type).  rec: Py_EnterRecursiveCall fails; getfail:
\* PyObject_GetAttr raises something other than AttributeError; fres: what
\* the compute function returns, or FuncFails; setok: the store succeeds
snakeoil_InternalJitAttr_get(obj, rec, getfail, fres, setok) ==
  /\ jit.made
  /\ UNCHANGED cacheVars
  /\ IF IsTypeAccess(obj)
     THEN JitStep(jit, slot, ncalls, nreads, first,
                  JResult("get", Descr, "none", 0, "descr"))
     ELSE
     /\ nreads < MaxReads
     /\ IF UseSingleton(jit) /\ rec
        THEN JitStep(jit, slot, ncalls, nreads + 1, first,
                     JResult("get", NULL, "RuntimeError", 0, "lookup"))
        ELSE IF UseSingleton(jit) /\ OtherError(getfail)
        THEN JitStep(jit, slot, ncalls, nreads + 1, first,
                     JResult("get", NULL, "Error", 0, "lookup"))
        ELSE IF UseSingleton(jit) /\ ~IsUnset(jit, slot)
        THEN JitStep(jit, slot, ncalls, nreads + 1, first,
                     JResult("get", slot, "none", 0, "cached"))
        ELSE \* generate the attr
             IF fres = FuncFails
             THEN JitStep(jit, slot, ncalls + 1, nreads + 1, first,
                          JResult("get", NULL, "Error", 1, "compute"))
             ELSE LET path == StorePath(jit)
                      new == SetAttrSlot(setok, fres, slot)
                  IN JitStep(jit, new, ncalls + 1, nreads + 1,
                             IF nreads = 0 /\ setok THEN new ELSE first,
                             IF setok
                             THEN JResult("get", fres, "none", 1, path)
                             ELSE JResult("get", NULL, "Error", 1, path))

NextJit ==
  \/ \E singleton \in Singletons, use_setattr_obj \in Truths, use_singleton_obj \in Truths :
       snakeoil_InternalJitAttr_new(singleton, use_setattr_obj, use_singleton_obj)
  \/ \E obj \in ObjArgs, rec \in BOOLEAN, getfail \in BOOLEAN,
        fres \in Values \cup {FuncFails}, setok \in BOOLEAN :
       snakeoil_InternalJitAttr_get(obj, rec, getfail, fres, setok)

SpecJit == InitExt /\ [][NextJit]_vars

\* the program itself writes the storage attribute of the owner (v) or
\* deletes it (Absent) between two reads
OwnerSetSlot(v) ==
  /\ jit.made
  /\ v # slot
  /\ UNCHANGED cacheVars
  /\ JitStep(jit, v, ncalls, nreads, first,
             JResult(IF v = Absent THEN "delattr" ELSE "setattr", None, "none", 0, "none"))

\* the descriptor on an owner whose storage attribute the program writes too
NextJitSet ==
  \/ NextJit
  \/ \E v \in Values \cup {Absent} : OwnerSetSlot(v)

SpecJitSet == InitExt /\ [][NextJitSet]_vars

\* ---------------------------------------- the claims on InternalJitAttr
\* C18: with the singleton check on, when the first read on the owner
\* stored a value other than the sentinel, the compute function has been
\* invoked exactly once over all the reads made since, the slot still holds
\* that value, and every later read that returned returned it.
C18_ComputeOnce ==
  (jit.made /\ jit.use_singleton # 0 /\ first # Absent /\ first # jit.singleton) =>
    /\ ncalls = 1
    /\ slot = first
    /\ (jres.op = "get" /\ jres.path # "descr" /\ jres.err = "none") => jres.ret = first

\* the first read stored a value and a later read returned it from the slot
C18_Witness ==
  /\ jit.made /\ jit.use_singleton # 0
  /\ first # Absent /\ first # jit.singleton
  /\ nreads >= 2
  /\ jres.path = "cached" /\ jres.ret = first

\* C18 as stated, for any value the first read stored: the compute function
\* is invoked exactly once, every later read returns the stored value.
C18_ComputeOnceAnyValue ==
  (jit.made /\ jit.use_singleton # 0 /\ first # Absent) =>
    /\ ncalls = 1
    /\ slot = first
    /\ (jres.op = "get" /\ jres.path # "descr" /\ jres.err = "none") => jres.ret = first

\* C19: with the singleton check off, every read on an instance invokes the
\* compute function once and, when it returns, stores its result over
\* whatever the slot held and returns it.
C19_AlwaysRecompute ==
  [][(jit.made /\ jit.use_singleton = 0 /\ nreads' # nreads) =>
       \A rec \in BOOLEAN, getfail \in BOOLEAN,
          fres \in Values \cup {FuncFails}, setok \in BOOLEAN :
         snakeoil_InternalJitAttr_get("inst", rec, getfail, fres, setok) =>
           /\ ncalls' = ncalls + 1
           /\ jres'.called = 1
           /\ (fres # FuncFails /\ setok) =>
                slot' = fres /\ jres'.ret = fres /\ jres'.err = "none"]_vars

\* a read recomputed and overwrote the value an earlier read had stored
C19_Witness ==
  /\ jit.made /\ jit.use_singleton = 0
  /\ nreads >= 2 /\ ncalls = nreads
  /\ first # Absent /\ first # slot
  /\ jres.called = 1 /\ jres.ret = slot

\* C20: a read through the type (no instance) returns the descriptor itself,
\* does not invoke the compute function and stores nothing.
C20_TypeAccess ==
  [][jres'.op = "get" =>
       \A obj \in {"NULL", "None"}, rec \in BOOLEAN, getfail \in BOOLEAN,
          fres \in Values \cup {FuncFails}, setok \in BOOLEAN :
         snakeoil_InternalJitAttr_get(obj, rec, getfail, fres, setok) =>
           /\ jres'.ret = Descr /\ jres'.err = "none"
           /\ jres'.called = 0
           /\ ncalls' = ncalls
           /\ slot' = slot]_vars

\* the descriptor was read through the type while the owner's slot was
\* unset or held the sentinel
C20_Witness ==
  /\ jit.made
  /\ jres.op = "get" /\ jres.path = "descr" /\ jres.ret = Descr
  /\ slot \in {Absent, jit.singleton}

\* ------------------------------------------------- len, clear, snapshots
\* the keys whose value is still alive
LiveKeys(d) == {k \in DOMAIN d : d[k].obj # None}
\* which referent every key maps to
Referents(d) == [k \in DOMAIN d |-> d[k].obj]

\* C21: in every reachable state len() is the number of entries of the
\* backing map, the dead ones that were not evicted yet included, and the
\* number of keys whose value is alive is never more than len()
C21_LenCountsEntries ==
  /\ PyDict_Size(dict) = Cardinality(DOMAIN dict)
  /\ Cardinality(LiveKeys(dict)) <= PyDict_Size(dict)
  /\ res.op = "len" => res.ret = Cardinality(DOMAIN dict)

\* len() answered 2 for one live and one dead entry
C21_Witness ==
  /\ res.op = "len" /\ res.ret = 2
  /\ Cardinality(LiveKeys(dict)) = 1

\* C22: clear() removes every entry, live or dead: afterwards len() is 0,
\* keys() is empty and every lookup signals KeyError; no value is destroyed
\* by the call
C22_ClearRemovesAll ==
  [][res'.op = "clear" =>
       /\ PyDict_Size(dict') = 0
       /\ PyDict_Keys(dict') = {}
       /\ \A key \in Keys :
            PyDict_GetItem(dict', key).obj = NULL /\ GetItem(key)'.err = "KeyError"
       /\ rc' = rc]_vars

\* a clear() that removed a weak reference the caller holds to a live value,
\* with an evicted dead reference whose callback has not run yet
C22_Witness ==
  /\ res.op = "clear"
  /\ \E k \in HashableKeys, o \in Objs : armed[k][o] > 0 /\ rc[o] > 0
  /\ \E k \in HashableKeys : queued[k] > 0

\* C23: keys(), values() and items() are snapshots: values() and items()
\* hand out the stored weak-reference objects themselves, one for every
\* entry, dead ones included, and no call changes the backing map
C23_SnapshotsReadOnly ==
  [][res'.op \in {"keys", "values", "items"} =>
       /\ Referents(dict') = Referents(dict)
       /\ UNCHANGED <<armed, queued, rc, stored>>
       /\ res'.op \in {"keys", "items"} => res'.ret = Cardinality(DOMAIN dict)
       /\ res'.op \in {"values", "items"} =>
            \A k \in LiveKeys(dict) : dict'[k].held]_vars

\* items() on a map with a dead entry and a live one
C23_Witness ==
  /\ res.op = "items" /\ res.ret = 2
  /\ \E k \in DOMAIN dict : dict[k].obj = None
  /\ \E k \in DOMAIN dict : dict[k].held

\* ------------------------------------------------- the finalizer's frame
\* C25: a finalizer firing for key K can only remove the entry of K: it adds
\* no entry, changes no key's weak reference, and leaves the entry of every
\* other key as it was
C25_FinalizerFrame ==
  [][res'.op = "finalizer" =>
       \A key \in HashableKeys : \A inMap \in BOOLEAN :
         snakeoil_WeakValFinalizer_call(key, inMap)
         => /\ DOMAIN dict' \subseteq DOMAIN dict
            /\ (DOMAIN dict) \ (DOMAIN dict') \subseteq {key}
            /\ \A k \in DOMAIN dict' : dict'[k] = dict[k]]_vars

\* a finalizer removed its key and the entry of the other key is still there
C25_Witness ==
  /\ res.op = "finalizer" /\ res.err = "none"
  /\ DOMAIN dict # {}

\* C26: the finalizer made when an earlier value was stored under K never
\* evicts a later value: when it fires while the entry of K holds a live
\* value, the entry still resolves to that value afterwards
C26_StaleFinalizerHarmless ==
  [][res'.op = "finalizer" =>
       \A key \in HashableKeys :
         (LiveEntry(key) /\ snakeoil_WeakValFinalizer_call(key, FALSE))
         => /\ key \in DOMAIN dict'
            /\ PyWeakref_GetObject(dict'[key]) = PyWeakref_GetObject(dict[key])]_vars

\* ------------------------------------------- the instance cache's contract
\* C27: for a class that opted in, in every reachable state all live
\* instances that were returned for equal hashable keys (without the bypass
\* flag) are one and the same object.
C27_OneLivePerKey ==
  \A c \in Classes : \A o1 \in Insts : \A o2 \in Insts :
    (/\ inst[o1].st = "live" /\ inst[o1].cls = c
     /\ inst[o2].st = "live" /\ inst[o2].cls = c
     /\ inst[o1].key = inst[o2].key)
    => o1 = o2

\* the key is in the instance cache of c and its referent is alive
LiveCached(c, key) ==
  key \in DOMAIN inst_dict[c] /\ inst[inst_dict[c][key]].st = "live"

\* C28: on an instance-cache hit (the key is present and its referent is
\* alive) the cached object is returned, the real constructor is not called
\* and the instance cache is left as it was.
C28_HitFrame ==
  [][ires'.op = "hit" =>
       /\ ires'.ret \in Insts /\ inst'[ires'.ret].st = "live"
       /\ ires'.ctor = 0
       /\ \A c \in Classes, args \in ArgTuples, kw \in KwArgs :
            (/\ tp[c].made /\ tp[c].inst_caching = 1
             /\ ~FlagIs(kw, 1) /\ ~FlagIs(kw, -1)
             /\ LiveCached(c, InstKey(args, kw))) =>
              \A ctor \in CtorOutcomes :
                snakeoil_WeakInstMeta_call(c, args, kw, ctor, "emitted") =>
                  /\ ires'.ret = inst_dict[c][InstKey(args, kw)]
                  /\ ires'.err = "none"
                  /\ inst_dict' = inst_dict /\ inst' = inst /\ tp' = tp]_vars

\* a hit that returned the live cached instance
C28_Witness ==
  /\ ires.op = "hit" /\ ires.ret \in Insts
  /\ inst[ires.ret].st = "live"
  /\ inst_dict[inst[ires.ret].cls][inst[ires.ret].key] = ires.ret

\* C29: on an instance-cache miss (the key is absent, or present with a dead
\* referent) the real constructor is called exactly once and its result is
\* stored under the key in place of any stale entry, so that the construction
\* with an equal key that follows immediately returns that same instance.
C29_MissFills ==
  [][/\ ires'.op = "miss" =>
          \A c \in Classes, args \in ArgTuples, kw \in KwArgs :
            (/\ tp[c].made /\ tp[c].inst_caching = 1
             /\ ~FlagIs(kw, 1) /\ ~FlagIs(kw, -1)
             /\ IKeyHashable(InstKey(args, kw))
             /\ ~LiveCached(c, InstKey(args, kw))) =>
              (snakeoil_WeakInstMeta_call(c, args, kw, "ok", "emitted") =>
                 /\ ires'.ctor = 1 /\ ires'.err = "none"
                 /\ ires'.ret \in Insts
                 /\ inst[ires'.ret].st = "free" /\ inst'[ires'.ret].st = "live"
                 /\ inst_dict'[c] = [k \in DOMAIN inst_dict[c] \cup {InstKey(args, kw)} |->
                                       IF k = InstKey(args, kw) THEN ires'.ret
                                       ELSE inst_dict[c][k]]
                 /\ \A d \in Classes \ {c} : inst_dict'[d] = inst_dict[d])
     /\ (/\ ires.op = "miss" /\ ires.err = "none"
         /\ ires'.op \notin {"new", "dealloc", "finalize", "hit"}) =>
          LET c == inst[ires.ret].cls
              args == inst[ires.ret].key.args
          IN \A kw \in KwArgs :
               (/\ inst[ires.ret].key = InstKey(args, kw)
                /\ ~FlagIs(kw, 1) /\ ~FlagIs(kw, -1)) =>
                 \A ctor \in CtorOutcomes :
                   ~snakeoil_WeakInstMeta_call(c, args, kw, ctor, "emitted")
     /\ (/\ ires.op = "miss" /\ ires.err = "none"
         /\ ires'.op = "hit") =>
          LET c == inst[ires.ret].cls
              args == inst[ires.ret].key.args
          IN \A kw \in KwArgs :
               (/\ inst[ires.ret].key = InstKey(args, kw)
                /\ ~FlagIs(kw, 1) /\ ~FlagIs(kw, -1)) =>
                 (snakeoil_WeakInstMeta_call(c, args, kw, "ok", "emitted") =>
                    (ires'.ret = ires.ret /\ ires'.ctor = 0))]_vars

\* a miss replaced the stale entry of a dead instance by the new instance
C29_Witness ==
  /\ ires.op = "miss" /\ ires.err = "none"
  /\ inst_dict[inst[ires.ret].cls][inst[ires.ret].key] = ires.ret
  /\ \E o \in Insts : /\ o # ires.ret /\ inst[o].st = "dead"
                      /\ inst[o].cls = inst[ires.ret].cls
                      /\ inst[o].key = inst[ires.ret].key

\* C30: when the real constructor fails during a miss-fill the failure is
\* propagated and the instance cache is left exactly as it was; a failure to
\* register the instance that is not an unhashable key (here a key whose hash
\* raises ValueError) is propagated too, and no instance is returned.
C30_FailuresPropagate ==
  [][/\ (ires'.op = "miss" /\ ires'.ret = NULL) =>
          \* either the error is the constructor's and nothing changed, or
          \* the step is no miss-fill with a failing constructor
          \/ /\ ires'.err = "Error" /\ ires'.ctor = 1
             /\ inst_dict' = inst_dict /\ inst' = inst /\ tp' = tp
          \/ \A c \in Classes, args \in ArgTuples, kw \in KwArgs :
               (/\ tp[c].made /\ tp[c].inst_caching = 1
                /\ ~FlagIs(kw, 1) /\ ~FlagIs(kw, -1)
                /\ ~LiveCached(c, InstKey(args, kw))) =>
                 ~snakeoil_WeakInstMeta_call(c, args, kw, "fail", "emitted")
     /\ ires'.op \in {"regfail", "unhashable"} =>
          \A c \in Classes, kw \in KwArgs :
            (/\ tp[c].made /\ tp[c].inst_caching = 1
             /\ ~FlagIs(kw, 1) /\ ~FlagIs(kw, -1)) =>
              \A warn \in WarnOutcomes :
                snakeoil_WeakInstMeta_call(c, <<BadHashArg>>, kw, "ok", warn) =>
                  /\ ires'.ret = NULL /\ ires'.err = "ValueError"
                  /\ ires'.ctor = 1
                  /\ inst_dict' = inst_dict]_vars

\* the constructor failed on a miss whose key has a stale entry, which is
\* still there
C30_Witness ==
  /\ ires.op = "miss" /\ ires.ret = NULL /\ ires.err = "Error"
  /\ \E c \in Classes : \E k \in DOMAIN inst_dict[c] : inst[inst_dict[c][k]].st = "dead"

\* ---------------------------------------------------- PlainTextFormatter
\* (src/src/formatters.c)
NoneItem == -8      \* Py_None as an argument of write
\* the arguments of write: None or a string, which is its length here (the
\* split loop of write never finds a space, so only lengths matter)
Items == {NoneItem, 1, 3}
WriteArgs == UNION {[1..n -> Items] : n \in 0..MaxArgs}
\* the prefix lists given to the formatter, and the ones given to one write
PrefixLists == {<<"p", "q">>, << >>}
TempList == <<"t">>
TempPrefix == "t"
PrefixNames ==
  {"prefix", "prefixes", "first_prefix", "first_prefixes", "later_prefix", "later_prefixes"}
\* the keyword arguments of one write: the prefix keywords given (every
\* single prefix is TempPrefix, every list is TempList), wrap and autoline
WriteKw ==
  {[names |-> ns, list |-> TempList, wrap |-> w, autoline |-> a] :
     ns \in {x \in SUBSET PrefixNames : Cardinality(x) <= 1}
              \cup {{"prefixes", "first_prefixes"}, {"prefix", "later_prefix"},
                    {"first_prefix", "first_prefixes"},
                    {"later_prefix", "later_prefixes"}},
     w \in {NULL, 1}, a \in {NULL, 0}}
\* what a failing write to the stream raises
StreamErrors ==
  {[exc |-> "IOError", val |-> EPIPE], [exc |-> "IOError", val |-> EIO]}

\* PyList_SetSlice(l, ilow, ihigh, NULL): the bounds are clipped to
\* 0..size, a negative ilow is 0
PyList_DelSlice(l, ilow, ihigh) ==
  LET lo == IF ilow < 0 THEN 0 ELSE IF ilow > Len(l) THEN Len(l) ELSE ilow
      hi == IF ihigh < lo THEN lo ELSE IF ihigh > Len(l) THEN Len(l) ELSE ihigh
  IN SubSeq(l, 1, lo) \o SubSeq(l, hi + 1, Len(l))

\* One call of the stream, the n-th of this write; a stream that fails takes
\* e.left calls and raises e.err in every later one.  At the sites that test the result properly
\* (site "checked") and with a file as stream a failure ends the write.  At
\* the sites that compute ret = tmp != NULL for a callable stream (site
\* "ret") a call that succeeded ends the write with no exception set, and
\* one that failed goes on with the exception set.
StreamCall(m, e, site) ==
  LET k == m.n + 1
      fails == e.err.exc # "none" /\ k > e.left
  IN IF site = "checked" \/ ~e.callable
     THEN IF fails
          THEN [m EXCEPT !.n = k, !.exc = e.err.exc, !.val = e.err.val, !.stop = TRUE]
          ELSE [m EXCEPT !.n = k]
     ELSE IF fails
          THEN [m EXCEPT !.n = k, !.exc = e.err.exc, !.val = e.err.val]
          ELSE [m EXCEPT !.n = k, !.stop = TRUE]

\* _write_prefix from element i on: every element of the prefix list in
\* use is written to the stream
\* (every intermediate state is bound as the element of a one-element set,
\* so that it is computed once)
RECURSIVE WritePrefixFrom(_, _, _)
WritePrefixFrom(m, e, i) ==
  LET list == IF m.ifl = 1 THEN e.first_prefix ELSE e.later_prefix IN
  IF i > Len(list) THEN m
  ELSE CHOOSE r \in
         {IF m1.stop THEN m1
          ELSE WritePrefixFrom(
                 IF e.wrap = 1 /\ m1.pos >= Width THEN [m1 EXCEPT !.pos = Width - 10]
                 ELSE m1,
                 e, i + 1) : m1 \in {StreamCall(m, e, "ret")}} : TRUE

write_prefix(m, e) == WritePrefixFrom(m, e, 1)

\* the loop that splits a string of length len that does not fit the line;
\* space stays -1 (the scan for a space ends before its first test)
RECURSIVE SplitLoop(_, _, _)
SplitLoop(m, e, len) ==
  IF ~(e.wrap = 1 /\ m.pos + len > Width)
  THEN [m |-> m, len |-> len]
  ELSE LET maxlen == Width - m.pos
           \* bit is "" on the first line or after something was written,
           \* else the first maxlen characters
           rest == IF m.ifl = 1 \/ m.ws = 1 THEN len ELSE len - maxlen
       IN CHOOSE r \in
            {IF m1.stop THEN [m |-> m1, len |-> rest]
             ELSE CHOOSE r2 \in
                    {IF m2.stop THEN [m |-> m2, len |-> rest]
                     ELSE SplitLoop(m2, e, rest) :
                       m2 \in {write_prefix([m1 EXCEPT !.pos = 0, !.ifl = 0, !.ws = 0], e)}} :
                    TRUE :
               m1 \in {StreamCall(m, e, "ret")}} : TRUE

\* the loop over the arguments of write, from argument i on
RECURSIVE WriteLoop(_, _, _, _)
WriteLoop(m, e, args, i) ==
  IF i > Len(args) THEN m
  ELSE CHOOSE r \in
         {IF m1.stop THEN m1
          ELSE IF args[i] = NoneItem \/ args[i] = 0 THEN WriteLoop(m1, e, args, i + 1)
          ELSE CHOOSE r2 \in
                 {IF s.m.stop THEN s.m
                  ELSE CHOOSE r3 \in
                         {IF m3.stop THEN m3
                          ELSE WriteLoop(IF e.autoline = 0
                                         THEN [m3 EXCEPT !.ws = 1, !.pos = @ + s.len]
                                         ELSE m3,
                                         e, args, i + 1) :
                            m3 \in {StreamCall(s.m, e, "checked")}} : TRUE :
                    s \in {SplitLoop(m1, e, args[i])}} : TRUE :
            m1 \in {IF m.pos = 0 THEN write_prefix(m, e) ELSE m}} : TRUE

\* the arguments are written, then the newline of autoline
WriteBody(m, e, args) ==
  CHOOSE r \in
    {IF m1.stop \/ e.autoline = 0 THEN m1
     ELSE CHOOSE r2 \in
            {IF m2.stop THEN m2
             ELSE [m2 EXCEPT !.ifl = 1, !.ws = 0, !.pos = 0] :
               m2 \in {StreamCall(m1, e, "checked")}} : TRUE :
       m1 \in {WriteLoop(m, e, args, 1)}} : TRUE

\* PyObject_IsTrue of the keyword when it is given, else the attribute
KwFlag(v, attr) == IF v = NULL THEN attr ELSE PyObject_IsTrue(v)

\* the prefix keywords of one write: the error of a forbidden combination
\* that returns at once ("early"), the one that goes through the cleanup
\* ("late"), the lists in use during the write and first_prune, later_prune
WritePrefixes(kw, first_prefix, later_prefix) ==
  LET has(n) == n \in kw.names
      first_prefixes == has("prefixes") \/ has("first_prefixes")
      later_prefixes == has("prefixes") \/ has("later_prefixes")
      first1 == has("prefix") \/ has("first_prefix")
      later1 == has("prefix") \/ has("later_prefix")
      early == \/ has("prefixes") /\ (has("first_prefixes") \/ has("later_prefixes"))
               \/ has("prefix") /\ (has("first_prefix") \/ has("later_prefix"))
               \/ first1 /\ first_prefixes
      fl == IF first1 THEN Append(first_prefix, TempPrefix)
            ELSE IF first_prefixes THEN first_prefix \o kw.list
            ELSE first_prefix
      fprune == IF first1 THEN 1
                ELSE IF first_prefixes THEN Len(first_prefix) - Len(fl)
                ELSE 0
      late == later1 /\ later_prefixes
      ll == IF late THEN later_prefix
            ELSE IF later1 THEN Append(later_prefix, TempPrefix)
            ELSE IF later_prefixes THEN later_prefix \o kw.list
            ELSE later_prefix
      lprune == IF late THEN 0
                ELSE IF later1 THEN 1
                ELSE IF later_prefixes THEN Len(later_prefix) - Len(ll)
                ELSE 0
  IN [early |-> early, late |-> late, first |-> fl, later |-> ll,
      first_prune |-> fprune, later_prune |-> lprune]

\* the run of one write up to the label finally
WriteRunOf(args, kw, p) ==
  LET e == [left |-> fmt.left, err |-> fmt.broken, callable |-> fmt.callable,
            wrap |-> KwFlag(kw.wrap, 0), autoline |-> KwFlag(kw.autoline, 1),
            first_prefix |-> p.first, later_prefix |-> p.later]
      m0 == [pos |-> fmt.pos, ifl |-> fmt.in_first_line, ws |-> fmt.wrote_something,
             n |-> 0, exc |-> "none", val |-> NULL, stop |-> FALSE]
  IN IF p.late THEN [m0 EXCEPT !.exc = "TypeError", !.stop = TRUE]
     ELSE WriteBody(m0, e, args)

\* (the prefix lists are built once)
WriteRun(args, kw) ==
  CHOOSE r \in {WriteRunOf(args, kw, p) :
                  p \in {WritePrefixes(kw, fmt.first_prefix, fmt.later_prefix)}} : TRUE

\* PlainTextFormatter.write(*args, **kw).  errnoRead is what comparing the errno
\* attribute of the exception type, read as a C int, with EPIPE gives: the
\* attribute of the type is no int ("eq", "ne"), or there is none and NULL
\* is read ("segv").
PTF_write(args, kw, errnoRead) ==
  /\ fmt.made /\ ~fmt.crashed
  /\ UNCHANGED cacheVars
  /\ \E p \in {WritePrefixes(kw, fmt.first_prefix, fmt.later_prefix)} :
     IF p.early
     THEN /\ errnoRead = "ne"
          /\ FmtStep([fmt EXCEPT !.res = FResult("write", NULL, "TypeError", NULL)])
     ELSE
     \E m \in {WriteRunOf(args, kw, p)} :
     LET first_list == IF p.first_prune # 0
                       THEN PyList_DelSlice(p.first, -p.first_prune, Len(p.first))
                       ELSE p.first
         later_list == IF p.later_prune # 0
                       THEN PyList_DelSlice(p.later, -p.later_prune, Len(p.later))
                       ELSE p.later
         taken == IF m.n < fmt.left THEN m.n ELSE fmt.left
         after == [fmt EXCEPT !.pos = m.pos, !.in_first_line = m.ifl,
                              !.left = @ - taken,
                              !.wrote_something = m.ws,
                              !.first_prefix = first_list,
                              !.later_prefix = later_list]
     IN /\ m.pos <= MaxPos
        /\ errnoRead # "ne" => m.exc = "IOError"
        /\ IF m.exc = "none"
           THEN FmtStep([after EXCEPT !.res = FResult("write", None, "none", NULL)])
           ELSE IF m.exc = "IOError" /\ errnoRead = "segv"
           THEN FmtStep([after EXCEPT !.crashed = TRUE,
                                      !.res = FResult("write", NULL, "segv", NULL)])
           ELSE IF m.exc = "IOError" /\ errnoRead = "eq"
           THEN \* PyErr_SetObject(e, StreamClosed): the type stays e
                FmtStep([after EXCEPT
                           !.res = FResult("write", NULL, m.exc, fmt.StreamClosed)])
           ELSE FmtStep([after EXCEPT !.res = FResult("write", NULL, m.exc, m.val)])

\* the class PyErr_NewException makes
StreamClosedType == -9

\* import of the module: the exception class is made and added to the
\* module under the name StreamClosed
init_formatters ==
  /\ fmt.exported = NULL
  /\ FmtStep([fmt EXCEPT !.exported = StreamClosedType,
                         !.res = FResult("import", None, "none", NULL)])
  /\ UNCHANGED cacheVars

\* PlainTextFormatter(stream): PTF_new, then PTF_init with PTF_setstream
PTF_init(isFile) ==
  /\ fmt.exported # NULL /\ ~fmt.made
  /\ FmtStep([fmt EXCEPT !.made = TRUE, !.callable = ~isFile,
                         !.res = FResult("init", None, "none", NULL)])
  /\ UNCHANGED cacheVars

PTF_set_first_prefix(value) ==
  /\ fmt.made /\ ~fmt.crashed
  /\ FmtStep([fmt EXCEPT !.first_prefix = value,
                         !.res = FResult("set_first_prefix", 0, "none", NULL)])
  /\ UNCHANGED cacheVars

PTF_set_later_prefix(value) ==
  /\ fmt.made /\ ~fmt.crashed
  /\ FmtStep([fmt EXCEPT !.later_prefix = value,
                         !.res = FResult("set_later_prefix", 0, "none", NULL)])
  /\ UNCHANGED cacheVars

\* the stream starts to fail: the pipe is closed by its reader, the disk
\* fails, the write method of the stream raises
StreamBreaks(err, n) ==
  /\ fmt.made /\ ~fmt.crashed
  /\ fmt.broken.exc = "none"
  /\ FmtStep([fmt EXCEPT !.broken = err, !.left = n,
                         !.res = FResult("break", None, "none", NULL)])
  /\ UNCHANGED cacheVars

ErrnoReads == {"ne", "eq", "segv"}

NextFmt ==
  \/ init_formatters
  \/ \E isFile \in BOOLEAN : PTF_init(isFile)
  \/ \E value \in PrefixLists : PTF_set_first_prefix(value)
  \/ \E value \in PrefixLists : PTF_set_later_prefix(value)
  \/ \E err \in StreamErrors, n \in 0..MaxLeft : StreamBreaks(err, n)
  \/ \E args \in WriteArgs, kw \in WriteKw :
       \E errnoRead \in (IF fmt.broken.exc = "IOError" THEN ErrnoReads ELSE {"ne"}) :
         PTF_write(args, kw, errnoRead)

SpecFmt == InitExt /\ [][NextFmt]_vars

\* C24: when write fails with an IOError whose errno is EPIPE the error
\* reported to the caller is the StreamClosed exception the module exports,
\* not the IOError; any other IOError is reported as it was raised.
C24_BrokenPipeIsStreamClosed ==
  [][(fmt'.res.op = "write" /\ fmt.broken.exc = "IOError") =>
       \A args \in WriteArgs, kw \in WriteKw, errnoRead \in ErrnoReads :
         (WriteRun(args, kw).exc = "IOError" /\ PTF_write(args, kw, errnoRead)) =>
           /\ fmt'.res.ret = NULL
           /\ fmt.broken.val = EPIPE =>
                fmt'.res.exc = "StreamClosed" /\ fmt.exported = StreamClosedType
           /\ fmt.broken.val # EPIPE =>
                fmt'.res.exc = "IOError" /\ fmt'.res.val = fmt.broken.val]_vars

\* ------------------------------------------- the claims of the last part
\* the operations of a step that is a construction through the metaclass
CallOps == {"call", "bypass", "hit", "miss", "regfail", "unhashable"}

\* what a construction of class c leaves alone: the cache of every other
\* class; and the object it returns, when that object lived before the call,
\* is one that the caching path of c itself made
OwnCacheOnly(c) ==
  /\ \A c2 \in Classes \ {c} : inst_dict'[c2] = inst_dict[c2]
  /\ (ires'.ret \in Insts /\ inst[ires'.ret].st # "free") =>
       /\ inst[ires'.ret].st = "live"
       /\ inst[ires'.ret].cls = c

\* C31: each class that opted in has its own instance cache: a construction
\* of class c never adds, replaces or removes an entry of the cache of
\* another class (its caching subclass or base class included), and the
\* object a construction returns is never one that another class cached, so
\* that constructions of two classes with equal arguments return distinct
\* objects.
C31_PerTypeCache ==
  [][ires'.op \in CallOps =>
       \A c \in Classes :
         \/ OwnCacheOnly(c)
         \/ \A args \in ArgTuples, kw \in KwArgs :
              \A ctor \in CtorChoices(c, args, kw) :
                \A warn \in WarnChoices(c, args, kw, ctor) :
                  ~snakeoil_WeakInstMeta_call(c, args, kw, ctor, warn)]_vars

\* both classes opted in and each cache holds a live instance of its own
\* class under one and the same key
C31_Witness ==
  /\ ires.op = "miss" /\ ires.ret \in Insts
  /\ \E k \in DOMAIN inst_dict["T"] \cap DOMAIN inst_dict["U"] :
       /\ inst[inst_dict["T"][k]].st = "live"
       /\ inst[inst_dict["U"][k]].st = "live"
       /\ inst_dict["T"][k] # inst_dict["U"][k]

\* C32: with the singleton check on, a read on an instance whose lookup of
\* the slot does not fail invokes the compute function exactly when the slot
\* is absent or holds the very sentinel object, also after the program
\* deleted the slot or reset it to the sentinel following an earlier read,
\* and then stores and returns the new result; when the slot holds any other
\* object the read returns that object without computing and stores nothing.
C32_UnsetIsAbsentOrSentinel ==
  [][(jit.made /\ jit.use_singleton # 0 /\ nreads' # nreads) =>
       \A fres \in Values \cup {FuncFails}, setok \in BOOLEAN :
         snakeoil_InternalJitAttr_get("inst", FALSE, FALSE, fres, setok) =>
           IF slot = Absent \/ slot = jit.singleton
           THEN /\ ncalls' = ncalls + 1 /\ jres'.called = 1
                /\ (fres # FuncFails /\ setok) =>
                     slot' = fres /\ jres'.ret = fres /\ jres'.err = "none"
           ELSE /\ ncalls' = ncalls /\ jres'.called = 0
                /\ jres'.ret = slot /\ jres'.err = "none"
                /\ slot' = slot]_vars

\* after a first read stored a value the slot was deleted or reset to the
\* sentinel, and the next read computed again and stored another result
C32_Witness ==
  /\ jit.made /\ jit.use_singleton # 0
  /\ first # Absent /\ first # jit.singleton
  /\ nreads >= 2 /\ ncalls >= 2
  /\ jres.op = "get" /\ jres.called = 1 /\ jres.err = "none"
  /\ jres.ret = slot /\ slot # first /\ slot # jit.singleton

\* C33: a read on an instance that computes stores the result through
\* exactly one of two paths, chosen by the configuration of the descriptor:
\* the owner's attribute-set path when use_cls_setattr is true, else the
\* generic set path; after a read on an instance that returned, on either
\* path, the slot holds the returned value.
C33_StorePath ==
  [][(jit.made /\ nreads' # nreads) =>
       \A rec \in BOOLEAN, getfail \in BOOLEAN,
          fres \in Values \cup {FuncFails}, setok \in BOOLEAN :
         snakeoil_InternalJitAttr_get("inst", rec, getfail, fres, setok) =>
           /\ (jres'.called = 1 /\ fres # FuncFails) =>
                /\ jres'.path = (IF jit.use_setattr # 0 THEN "setattr" ELSE "generic")
                /\ setok => slot' = fres
                /\ ~setok => slot' = slot
           /\ jres'.path \in {"setattr", "generic"} =>
                jres'.called = 1 /\ fres # FuncFails
           /\ jres'.err = "none" => slot' = jres'.ret]_vars

\* a descriptor made with a true use_cls_setattr stored a computed value
\* through the owner's attribute-set path
C33_Witness ==
  /\ jit.made /\ jit.use_setattr # 0
  /\ jres.op = "get" /\ jres.path = "setattr" /\ jres.err = "none"
  /\ jres.called = 1 /\ jres.ret = slot

\* C34: the failures of a read on an instance: when the lookup of the slot
\* fails with anything other than an absent attribute the error is returned
\* and the compute function is not invoked; when the compute function fails
\* the error is returned and the slot is unchanged; when the store of the
\* computed value fails the error is returned and the read returns no value.
C34_ReadFailures ==
  [][(jit.made /\ nreads' # nreads) =>
       \A rec \in BOOLEAN, getfail \in BOOLEAN,
          fres \in Values \cup {FuncFails}, setok \in BOOLEAN :
         snakeoil_InternalJitAttr_get("inst", rec, getfail, fres, setok) =>
           /\ (jit.use_singleton # 0 /\ (rec \/ getfail)) =>
                /\ jres'.ret = NULL /\ jres'.err # "none"
                /\ jres'.called = 0 /\ ncalls' = ncalls
                /\ slot' = slot
           /\ (jres'.called = 1 /\ fres = FuncFails) =>
                /\ jres'.ret = NULL /\ jres'.err # "none"
                /\ slot' = slot
           /\ (jres'.called = 1 /\ fres # FuncFails /\ ~setok) =>
                /\ jres'.ret = NULL /\ jres'.err # "none"]_vars

\* the lookup of an unset slot failed with another error: nothing was
\* computed
C34_Witness ==
  /\ jit.made /\ jit.use_singleton # 0
  /\ jres.op = "get" /\ jres.path = "lookup" /\ jres.err = "Error"
  /\ jres.called = 0 /\ jres.ret = NULL
  /\ slot \in {Absent, jit.singleton}

\* ------------------------------------------------------------- normpath
\* (src/src/posix.c)
\* the byte at index i (from 1) of a C string
CharAt(p, i) == IF i <= Len(p) THEN p[i] ELSE NUL

\* SKIP_SLASHES(ptr): the index of the first byte from i on that is no '/'
RECURSIVE SKIP_SLASHES(_, _)
SKIP_SLASHES(p, i) == IF CharAt(p, i) = "/" THEN SKIP_SLASHES(p, i + 1) ELSE i

\* *write = c; a byte in front of the string object's bytes is recorded as
\* such
Poke(n, w, c) ==
  IF w >= 0 /\ w \in DOMAIN n.new_path
  THEN [n EXCEPT !.new_path[w] = c]
  ELSE [n EXCEPT !.below = TRUE]

\* while ('/' != *write) write--;  from index q down, inside new_path: the
\* index of the '/' found, or -1 when there is none at or above index 0
RECURSIVE ScanBack(_, _)
ScanBack(b, q) ==
  IF q < 0 THEN -1
  ELSE IF q \in DOMAIN b /\ b[q] = "/" THEN q
  ELSE ScanBack(b, q - 1)

\* where the scan from q ends: inside new_path; or, the scan having left
\* new_path at its front, at some byte of the memory in front of it that
\* happens to be '/' (an index -d), or nowhere (Lost)
ScanEnds(b, q) ==
  IF ScanBack(b, q) >= 0 THEN {ScanBack(b, q)}
  ELSE {-d : d \in {e \in 1..MaxBelow : -e <= q}} \cup {Lost}

\* normpath(old_path), up to the while loop; the empty path returns "."
snakeoil_normpath(old_path, prev) ==
  /\ norm.pc \in {"idle", "done", "segv"}
  /\ UNCHANGED cacheVars
  /\ LET path_len == Len(old_path) IN
     IF path_len = 0
     THEN NormStep([NormInit EXCEPT !.pc = "done", !.ret = <<".">>, !.prev = prev])
     ELSE NormStep([NormInit EXCEPT
                      !.pc = "loop", !.path = old_path, !.prev = prev,
                      !.new_path = [k \in 0..path_len |->
                                      IF k = path_len THEN NUL ELSE Uninit],
                      !.is_absolute = (old_path[1] = "/"),
                      !.depth = IF old_path[1] = "/" THEN -1 ELSE 0])

\* the component ".." with the scan ending at index at (or Lost)
DotDot(n, at) ==
  LET after == [n EXCEPT !.i = SKIP_SLASHES(n.path, n.i + 2)] IN
  IF n.depth = 1
  THEN IF n.is_absolute
       THEN [after EXCEPT !.write = 1, !.depth = 0]
       ELSE IF at = Lost THEN [n EXCEPT !.pc = "segv"]
       ELSE [after EXCEPT !.write = at + 1, !.depth = 0]
  ELSE IF n.depth # 0
  THEN IF at = Lost THEN [n EXCEPT !.pc = "segv"]
       ELSE [after EXCEPT !.write = at + 1, !.depth = n.depth - 1]
  ELSE IF n.is_absolute
       THEN [after EXCEPT !.write = 1]
       ELSE [Poke(Poke(Poke(after, n.write, "."), n.write + 1, "."),
                  n.write + 2, "/")
               EXCEPT !.write = n.write + 3]

\* a component that is no '.' and no '/': it is copied up to the next '/'
RECURSIVE CopyName(_)
CopyName(n) ==
  IF CharAt(n.path, n.i) \in {"/", NUL} THEN n
  ELSE CopyName([Poke(n, n.write, CharAt(n.path, n.i))
                   EXCEPT !.write = n.write + 1, !.i = n.i + 1])

\* one turn of the while loop
normpath_loop(at) ==
  /\ norm.pc = "loop"
  /\ CharAt(norm.path, norm.i) # NUL
  /\ UNCHANGED cacheVars
  /\ LET n == norm
         c == CharAt(n.path, n.i)
         c1 == CharAt(n.path, n.i + 1)
         c2 == CharAt(n.path, n.i + 2)
         dotdot == c = "." /\ c1 = "." /\ c2 \in {"/", NUL}
         scans == dotdot /\ n.depth # 0 /\ ~(n.depth = 1 /\ n.is_absolute)
     IN /\ at \in (IF scans THEN ScanEnds(n.new_path, n.write - 2) ELSE {0})
        /\ NormStep(
             IF c = "/"
             THEN [Poke(n, n.write, "/") EXCEPT
                     !.write = n.write + 1, !.i = SKIP_SLASHES(n.path, n.i),
                     !.depth = n.depth + 1]
             ELSE IF dotdot THEN DotDot(n, at)
             ELSE IF c = "." /\ c1 = "/"
             THEN [n EXCEPT !.i = SKIP_SLASHES(n.path, n.i + 2)]
             ELSE IF c = "." /\ c1 = NUL
             THEN [n EXCEPT !.i = n.i + 1]
             ELSE IF c = "."
             THEN [Poke(n, n.write, ".") EXCEPT !.write = n.write + 1, !.i = n.i + 1]
             ELSE CopyName(n))

\* the bytes 0..len-1 of the new string
Bytes(b, len) == [k \in 1..len |-> b[k - 1]]

\* after the loop: a trailing '/' is dropped and the string is resized to
\* write - new_path.  _PyString_Resize refuses a negative size (SystemError);
\* after a write in front of the bytes the string object's header is
\* damaged and the call does not return
normpath_return ==
  /\ norm.pc = "loop"
  /\ CharAt(norm.path, norm.i) = NUL
  /\ UNCHANGED cacheVars
  /\ LET n == norm
         w == IF n.write - 1 > 0 /\ (n.write - 1) \in DOMAIN n.new_path
                 /\ n.new_path[n.write - 1] = "/"
              THEN n.write - 1 ELSE n.write
     IN NormStep(
          IF n.below THEN [n EXCEPT !.pc = "segv", !.write = w]
          ELSE IF w < 0
          THEN [n EXCEPT !.pc = "done", !.write = w, !.ret = NoPath, !.err = "SystemError"]
          ELSE IF w > Len(n.path)
          THEN [n EXCEPT !.pc = "segv", !.write = w]
          ELSE [n EXCEPT !.pc = "done", !.write = w, !.ret = Bytes(n.new_path, w)])

\* normpath is called on a path, or on the result of the call before
NextNorm ==
  \/ \E old_path \in Paths : snakeoil_normpath(old_path, NoPath)
  \/ /\ norm.pc = "done" /\ norm.ret # NoPath /\ norm.prev = NoPath
     /\ snakeoil_normpath(norm.ret, norm.path)
  \/ \E at \in Lost..MaxPath : normpath_loop(at)
  \/ normpath_return

SpecNorm == InitExt /\ [][NextNorm]_vars

\* write never points in front of new_path
WriteNotBelow == norm.pc # "idle" => norm.write >= 0

\* write never points past the byte at index path_len
WriteNotBeyond == norm.pc # "idle" => norm.write <= Len(norm.path)

\* a call that returns returns a string no longer than its argument
ResultNotLonger ==
  (norm.pc = "done" /\ norm.path # << >>) =>
    /\ norm.ret # NoPath
    /\ Len(norm.ret) <= Len(norm.path)

\* C35: for every input string with a byte in it, normpath keeps its write
\* position inside the output buffer at every step, never below 0 and never
\* beyond the input length, also when a ".." cancels the only component in
\* front of it in a relative path, and the result is a string whose length
\* is between 0 and the input length.
C35_WriteInsideBuffer ==
  /\ WriteNotBelow
  /\ WriteNotBeyond
  /\ ResultNotLonger
  /\ norm.pc # "segv"

\* C36: normpath is idempotent: a call on the result of a call returns its
\* argument; the empty string gives ".".
C36_Idempotent ==
  /\ (norm.pc = "done" /\ norm.prev # NoPath) => norm.ret = norm.path
  /\ (norm.pc = "done" /\ norm.path = << >>) => norm.ret = <<".">>

\* ----------------------------------------------------------------- join
\* (src/src/posix.c)
\* the right most item with a prefixed '/', else the first
RECURSIVE JoinStart(_, _)
JoinStart(items, i) ==
  IF i = 0 THEN 1
  ELSE IF CharAt(items[i], 1) = "/" THEN i
  ELSE JoinStart(items, i - 1)

leading_slash(items) == \E i \in 1..Len(items) : CharAt(items[i], 1) = "/"

\* the number of '/' at the end of s
RECURSIVE TrailingSlashes(_, _)
TrailingSlashes(s, n) ==
  IF n > 0 /\ s[n] = "/" THEN 1 + TrailingSlashes(s, n - 1) ELSE 0

\* what one item adds to len in the second loop
ItemLen(s, isLast) ==
  LET n == Len(s)
      t == TrailingSlashes(s, n)
  IN IF n = 0 THEN 0
     ELSE IF isLast THEN n
     ELSE IF t = 0 THEN n + 1          \* room for the separator
     ELSE IF t # n THEN n - (t - 1)    \* duplicate trailing slashes cut
     ELSE n                            \* slashes only

RECURSIVE JoinLen(_, _)
JoinLen(items, i) ==
  IF i > Len(items) THEN 0
  ELSE ItemLen(items[i], i = Len(items)) + JoinLen(items, i + 1)

\* *buf = c; buf++
Put(b, c) ==
  IF b.written \in DOMAIN b.buf
  THEN [b EXCEPT !.buf[b.written] = c, !.written = b.written + 1]
  ELSE [b EXCEPT !.overrun = TRUE, !.written = b.written + 1]

\* k times: *buf = '/'; buf++
RECURSIVE PutSlashes(_, _)
PutSlashes(b, k) == IF k <= 0 THEN b ELSE PutSlashes(Put(b, "/"), k - 1)

\* the inner while loop of the copy for one item, from its byte j on
RECURSIVE CopyItem(_, _, _, _)
CopyItem(b, s, j, isLast) ==
  IF CharAt(s, j) = NUL THEN b
  ELSE IF CharAt(s, j) = "/"
  THEN IF CharAt(s, SKIP_SLASHES(s, j)) = NUL
       THEN IF ~isLast
            THEN [Put(b, "/") EXCEPT !.written = b.written]      \* buf--
            ELSE PutSlashes(Put(b, "/"), SKIP_SLASHES(s, j) - (j + 1))
       ELSE CopyItem(PutSlashes(Put(b, "/"), SKIP_SLASHES(s, j) - (j + 1)),
                     s, SKIP_SLASHES(s, j), isLast)
  ELSE CopyItem(Put(b, CharAt(s, j)), s, j + 1, isLast)

\* the third loop, from item i on
RECURSIVE JoinCopy(_, _, _, _)
JoinCopy(b, items, i, start) ==
  IF i > Len(items) THEN b
  ELSE LET j == IF i = start /\ leading_slash(items) THEN 2 ELSE 1
           isLast == i = Len(items)
       IN IF CharAt(items[i], j) = NUL
          THEN JoinCopy(b, items, i + 1, start)
          ELSE JoinCopy(IF isLast THEN CopyItem(b, items[i], j, isLast)
                        ELSE Put(CopyItem(b, items[i], j, isLast), "/"),
                        items, i + 1, start)

\* join(*args)
snakeoil_join(args) ==
  /\ UNCHANGED cacheVars
  /\ IF Len(args) = 0
     THEN JoinStep([JoinInit EXCEPT !.err = "TypeError"])
     ELSE LET start == JoinStart(args, Len(args))
              items == SubSeq(args, start, Len(args))
              len == JoinLen(items, 1)
              b0 == [JoinInit EXCEPT
                       !.args = args, !.len = len,
                       !.buf = [k \in 0..len |-> IF k = len THEN NUL ELSE Uninit]]
              b1 == IF leading_slash(args) THEN Put(b0, "/") ELSE b0
              b2 == JoinCopy(b1, items, 1, 1)
          IN \* *buf = '\0'
             JoinStep([Put(b2, NUL) EXCEPT !.written = b2.written])

NextJoin == \E args \in JoinArgs : snakeoil_join(args)

SpecJoin == InitExt /\ [][NextJoin]_vars

\* C37: for every list of string arguments with an item in it the length
\* that join computes before it allocates is the number of bytes its copy
\* loop writes: the write position ends at the allocated length, nothing is
\* written behind the result and no byte of the result is left unwritten or
\* is the byte 0, also when an argument is made of slashes only.
C37_LengthMatchesCopy ==
  jn.args # << >> =>
    /\ jn.written = jn.len
    /\ ~jn.overrun
    /\ \A k \in 0..(jn.len - 1) : jn.buf[k] \notin {Uninit, NUL}

\* ------------------------------------------------------------ readlines
\* (src/src/posix.c)
\* no byte is taken for whitespace
isspace_Never(c, hiSpace) == FALSE

\* isspace(c); for a byte above 127 the answer (hiSpace) is the locale's
isspace(c, hiSpace) == c \in {"\n", " "} \/ (c = "h" /\ hiSpace)

\* memchr(p, '\n', self->end - p) as an offset, self->end when there is none
RECURSIVE memchr(_, _)
memchr(b, p) ==
  IF p >= Len(b) THEN Len(b)
  ELSE IF b[p + 1] = "\n" THEN p
  ELSE memchr(b, p + 1)

\* while (real_start < p && isspace(*real_start)) real_start++;
RECURSIVE StripFront(_, _, _, _)
StripFront(b, real_start, p, hiSpace) ==
  IF real_start < p /\ isspace(b[real_start + 1], hiSpace)
  THEN StripFront(b, real_start + 1, p, hiSpace)
  ELSE real_start

\* while (real_start < real_end && isspace(real_end[-1])) real_end--;
RECURSIVE StripBack(_, _, _, _)
StripBack(b, real_start, real_end, hiSpace) ==
  IF real_start < real_end /\ isspace(b[real_end], hiSpace)
  THEN StripBack(b, real_start, real_end - 1, hiSpace)
  ELSE real_end

\* the bytes at the offsets from..to-1
Slice(b, from, to) == SubSeq(b, from + 1, to)

\* readlines(path, strip_whitespace) on a file of which the bytes buffer
\* were read; one object is iterated to its end before the next is made
snakeoil_readlines_new(buffer, strip) ==
  /\ ~rl.made \/ rl.start = Len(rl.buf)
  /\ UNCHANGED cacheVars
  /\ LinesStep([LinesInit EXCEPT !.made = TRUE, !.buf = buffer,
                                 !.strip_whitespace = strip])

\* next() of the object
snakeoil_readlines_iternext(hiSpace) ==
  /\ rl.made
  /\ UNCHANGED cacheVars
  /\ IF rl.start = Len(rl.buf)
     THEN \* at the end, thus return
          LinesStep([rl EXCEPT !.ret = NoLine])
     ELSE LET p == memchr(rl.buf, rl.start)
              end == Len(rl.buf)
              real_start == StripFront(rl.buf, rl.start, p, hiSpace)
              real_end == StripBack(rl.buf, real_start, p, hiSpace)
              ret == IF rl.strip_whitespace # 0
                     THEN Slice(rl.buf, real_start, real_end)
                     ELSE IF p = end THEN Slice(rl.buf, rl.start, p)
                     ELSE Slice(rl.buf, rl.start, p + 1)
          IN LinesStep([rl EXCEPT !.start = IF p # end THEN p + 1 ELSE p,
                                  !.lines = Append(rl.lines, ret),
                                  !.ret = ret])

NextLines ==
  \/ \E buffer \in Buffers, strip \in {0, 1} : snakeoil_readlines_new(buffer, strip)
  \/ \E hiSpace \in BOOLEAN : snakeoil_readlines_iternext(hiSpace)

\* next() is called again and again
SpecLines ==
  /\ InitExt /\ [][NextLines]_vars
  /\ WF_vars(\E hiSpace \in BOOLEAN : snakeoil_readlines_iternext(hiSpace))

\* the concatenation of the lines
RECURSIVE Concat(_)
Concat(ls) == IF ls = << >> THEN << >> ELSE Head(ls) \o Concat(Tail(ls))

snakeoil_whirlpool_init_hash(kind) == IF kind = "bad" THEN 0 ELSE 1

\* what hash holds after the call: a source of a wrong length leaves it
\* alone, the others overwrite it up to the entry that does not convert
HashAfter(kind, old) ==
  IF kind = "short" THEN old ELSE IF kind = "ok" THEN "full" ELSE "part"

\* the tables init_hash is called on: those up to the first for which it
\* returns 0
Reached(a) ==
  {k \in TableIds : \A j \in TableIds : j < k => snakeoil_whirlpool_init_hash(a[j]) # 0}

\* init(C0, ..., C7)
snakeoil_whirlpool_init(a) ==
  /\ UNCHANGED cacheVars
  /\ LET failed == \E k \in TableIds : snakeoil_whirlpool_init_hash(a[k]) = 0
         short == \E k \in TableIds : a[k] = "short"
         tables == [k \in TableIds |->
                      IF k \in Reached(a) THEN HashAfter(a[k], wp.C[k]) ELSE wp.C[k]]
         last == NumTables - 1
     IN WhirlStep(
          IF failed
          THEN [wp EXCEPT !.C = tables,
                          !.res = [op |-> "init", ret |-> NULL, err |-> "Error",
                                   short |-> short, was |-> wp.is_initialized]]
          ELSE [wp EXCEPT !.C = tables,
                          !.is_initialized = 1,
                          !.valid = @ \/ \A k \in TableIds : a[k] = "ok",
                          \* the RuntimeError of a table of a wrong length is
                          \* cleared by the call for the next table
                          !.res = [op |-> "init", ret |-> True,
                                   err |-> IF a[last] = "short" THEN "RuntimeError"
                                           ELSE "none",
                                   short |-> short, was |-> wp.is_initialized]])

\* CDo(buf, index)
snakeoil_whirlpool_CDo(arg) ==
  /\ UNCHANGED cacheVars
  /\ LET r(ret, err) == [op |-> "CDo", ret |-> ret, err |-> err,
                         short |-> FALSE, was |-> wp.is_initialized]
     IN WhirlStep([wp EXCEPT !.res =
          IF wp.is_initialized = 0 THEN r(NULL, "RuntimeError")
          ELSE IF arg \in {"nolist", "less"} THEN r(NULL, "RuntimeError")
          ELSE IF arg = "noint" THEN r(NULL, "TypeError")
          ELSE r(SomeLong, "none")])

NextWhirl ==
  \/ \E a \in InitArgs : snakeoil_whirlpool_init(a)
  \/ \E arg \in CDoArgs : snakeoil_whirlpool_CDo(arg)

SpecWhirl == InitExt /\ [][NextWhirl]_vars

\* C39: the helper is marked initialized only by an init call in which
\* every one of the eight tables has 256 entries that convert; an init call
\* that was given a table of another length fails and leaves the flag as it
\* was; and CDo fails with a RuntimeError in every state in which no such
\* init call has succeeded.
C39_InitNeedsGoodTables ==
  /\ wp.is_initialized # 0 => wp.valid
  /\ (wp.res.op = "init" /\ wp.res.short) =>
       /\ wp.res.ret = NULL /\ wp.res.err # "none"
       /\ wp.is_initialized = wp.res.was
  /\ (wp.res.op = "CDo" /\ ~wp.valid) =>
       wp.res.ret = NULL /\ wp.res.err = "RuntimeError"

====
